---- MODULE Spec2Model ----
(***************************************************************************)
(* A model of three parts of the data-repository registry:                 *)
(*                                                                         *)
(*  - ByDimensionsDatasetRecordStorageManager (register / refresh / find  *)
(*    / getDatasetRef) run by several processes, each with its own cache,  *)
(*    over one shared dataset_type directory table and dataset table;      *)
(*  - RepoExportContext (saveCollection, saveDimensionData, saveDataIds,   *)
(*    saveDatasets, _finish, _computeSortedCollections, ...), the calls    *)
(*    it makes on its RepoExportBackend, and the replay of those calls     *)
(*    into an empty catalog;                                               *)
(*  - addDatasetType of the test utilities, over the same manager.         *)
(*                                                                         *)
(* refresh() and _computeSortedCollections() are also modelled statement   *)
(* by statement (SpecRefresh, SpecSortLoop), and saveDatasets() over       *)
(* datastores and rewrite callbacks that raise (SpecDatastore).            *)
(***************************************************************************)
EXTENDS Integers, Sequences, FiniteSets, TLC

VARIABLES
    directory,   \* rows of the static dataset_type table, shared by all processes
    tables,      \* names of the dynamic tables that exist in the database
    nextId,      \* the autoincrement counter of dataset_type.id
    byName,      \* byName[p]: the manager's _byName dict (name -> storage)
    byId,        \* byId[p]: the manager's _byId dict (id -> storage)
    pc,          \* pc[p]: where process p is inside register(), getDatasetRef() or refresh()
    cur,         \* cur[p]: the frame of register() that is at its db call
    frames,      \* frames[p]: dataset types whose register() call is still to run
    ret,         \* ret[p]: what the caller's own register() call will return
    callLog,     \* history: outcome of every finished top-level register()
    cascaded,    \* history: names whose row was inserted by a component frame
    datasetRows, \* rows of the static dataset table (with the data ID of the dynamic table)
    nextDatasetId, \* the autoincrement counter of dataset.id
    getCur,      \* getCur[p]: the dataset row getDatasetRef() fetched and is working on
    getOut,      \* history: what the last getDatasetRef() call that ended did
    findOut,     \* history: what the last find() call returned
    refreshOut,  \* history: what the last refresh() call found in the caches
    addOut,      \* history: what the last addDatasetType() call that failed at once did
    ctx,         \* the RepoExportContext: _records, _dataset_ids, _datasets, _collections
    backend,     \* the calls the RepoExportBackend has received, in order
    sortOut,     \* what the last direct _computeSortedCollections() call returned
    finishOut,   \* history: what the last _finish() call did
    nFinish,     \* history: how many _finish() calls were made
    datastore,   \* the Datastore the RepoExportContext was constructed with
    asked,       \* history: the names and refs the session's callers passed in
    dataIdsOut,  \* history: what the last direct saveDataIds() call did
    dimDataOut,  \* history: what the last saveDimensionData() call did
    datasetsOut, \* history: what the last recorded saveDatasets() call did
    datastoreCalls, \* history: the export and rewrite calls of the recorded saveDatasets()
    sortLoop,    \* the locals of a _computeSortedCollections() call that runs pass by pass
    refreshLoop  \* the locals of a refresh() call that runs row by row

refVars == <<datasetRows, nextDatasetId, getCur, getOut, findOut>>

mgrVars == <<directory, tables, nextId, byName, byId, pc, cur, frames, ret, callLog, cascaded,
             refVars, refreshOut, addOut, refreshLoop>>

expVars == <<ctx, backend, sortOut, finishOut, nFinish, datastore, asked, dataIdsOut,
             dimDataOut, datasetsOut, datastoreCalls, sortLoop>>

vars == <<mgrVars, expVars>>

-----------------------------------------------------------------------------
(* Bounds *)

MaxCalls == 3
MaxSaved == 3
MaxPasses == MaxSaved + 1

Procs == {"p1", "p2"}

-----------------------------------------------------------------------------
(* Generic helpers *)

Range(s) == {s[i] : i \in 1..Len(s)}

RECURSIVE Pow2(_)
Pow2(n) == IF n = 0 THEN 1 ELSE 2 * Pow2(n - 1)

RECURSIVE SumOver(_, _)
SumOver(S, f) ==
    IF S = {} THEN 0
    ELSE LET x == CHOOSE y \in S : TRUE IN f[x] + SumOver(S \ {x}, f)

\* A Python dict as a function with a finite domain.
DictGet(d, k, none) == IF k \in DOMAIN d THEN d[k] ELSE none
DictSet(d, k, v) == [x \in (DOMAIN d) \cup {k} |-> IF x = k THEN v ELSE d[x]]
EmptyDict == [x \in {} |-> 0]

-----------------------------------------------------------------------------
(* Dataset types, dimension graphs and storage classes (collaborators of   *)
(* the manager).                                                           *)

DimensionUniverse == <<"instrument", "visit">>

DimIndex(d) == CHOOSE i \in 1..Len(DimensionUniverse) : DimensionUniverse[i] = d

\* DimensionGraph.encode(): a bit mask over the universe's dimension indices.
Encode(dims) == SumOver(dims, [d \in dims |-> Pow2(DimIndex(d) - 1)])

\* DimensionGraph.decode(): the dimensions whose bit is set.
Decode(mask) ==
    {DimensionUniverse[i] : i \in {j \in 1..Len(DimensionUniverse) : (mask \div Pow2(j - 1)) % 2 = 1}}

\* StorageClass.components, in declaration order.
StorageClassComponents(sc) ==
    IF sc = "Exposure" THEN <<"image", "wcs">> ELSE <<>>

ComponentStorageClass(sc, comp) ==
    IF comp = "image" THEN "Image" ELSE "Wcs"

IsComposite(dt) == StorageClassComponents(dt.storageClass) # <<>>

DatasetType(name, dims, sc) == [name |-> name, dimensions |-> dims, storageClass |-> sc]

\* DatasetType.makeComponentDatasetType
MakeComponentDatasetType(dt, comp) ==
    DatasetType(dt.name \o "." \o comp, dt.dimensions,
                ComponentStorageClass(dt.storageClass, comp))

MakeDynamicTableNamePerType(dt) == <<"dataset_collection", dt.name>>

\* tables.makeDynamicTableName: a pure function of the dimension set.
MakeDynamicTableName(dt) == <<"dataset_collection", Encode(dt.dimensions)>>

D1 == {"instrument"}
D2 == {"instrument", "visit"}

\* The dataset types callers pass to register().
RegisterInputs ==
    { DatasetType("exp", D1, "Exposure"),
      DatasetType("exp", D2, "Exposure"),
      DatasetType("exp", D1, "Image"),
      DatasetType("exp.image", D1, "Image"),
      DatasetType("exp.image", D2, "Image") }

-----------------------------------------------------------------------------
(* The database collaborator *)

RowsNamed(dir, name) == {r \in dir : r.name = name}

\* Database.sync(table, keys={name}, compared={dimensions_encoded,
\* storage_class}, returning=[id]): atomic insert-or-verify.
DbSync(dir, nid, dt) ==
    LET found == RowsNamed(dir, dt.name) IN
    IF found = {}
    THEN [status |-> "ok", inserted |-> TRUE, id |-> nid, nextId |-> nid + 1,
          dir |-> dir \cup {[id |-> nid, name |-> dt.name,
                             dimensions_encoded |-> Encode(dt.dimensions),
                             storage_class |-> dt.storageClass]}]
    ELSE LET row == CHOOSE r \in found : TRUE IN
         IF row.dimensions_encoded = Encode(dt.dimensions)
            /\ row.storage_class = dt.storageClass
         THEN [status |-> "ok", inserted |-> FALSE, id |-> row.id,
               nextId |-> nid, dir |-> dir]
         ELSE [status |-> "conflict", inserted |-> FALSE, id |-> 0,
               nextId |-> nid, dir |-> dir]

\* Database.getExistingTable: the table, or None when it does not exist.
NoTable == <<>>

GetExistingTable(tbls, name) == IF name \in tbls THEN name ELSE NoTable

-----------------------------------------------------------------------------
(* ByDimensionsDatasetRecordStorageManager *)

MakeStorageFromCounter(dt, rowId, dynamic) ==
    [datasetType |-> dt, dataset_type_id |-> nextId, dynamic |-> dynamic]

\* ByDimensionsDatasetRecordStorage(datasetType=..., dynamic=..., dataset_type_id=row["id"])
MakeStorage(dt, rowId, dynamic) ==
    [datasetType |-> dt, dataset_type_id |-> rowId, dynamic |-> dynamic]

\* find() returning None
NoStorage == [datasetType |-> DatasetType("", {}, ""), dataset_type_id |-> 0, dynamic |-> NoTable]

\* A frame of register(): the dataset type, whether it is the caller's own
\* call (top) or a recursive call for a component, and what db.sync returned.
Frame(dt, top) == [datasetType |-> dt, top |-> top, id |-> 0, inserted |-> FALSE]

NoFrame == [datasetType |-> DatasetType("", {}, ""), top |-> FALSE, id |-> 0, inserted |-> FALSE]

\* What a top-level register() call did: ok is FALSE when it raised.
LogEntry(p, dt, ok, inserted, id) ==
    [proc |-> p, datasetType |-> dt, ok |-> ok, inserted |-> inserted, id |-> id]

NoReturn == LogEntry("none", DatasetType("", {}, ""), FALSE, FALSE, 0)

Returned(r, inserted, id) == [r EXCEPT !.ok = TRUE, !.inserted = inserted, !.id = id]

Raised(r) == [r EXCEPT !.ok = FALSE, !.inserted = FALSE, !.id = 0]

\* find(): self._byName.get(name)
FindIn(cache, name) == DictGet(cache, name, NoStorage)

FindShared(p, name) ==
    IF RowsNamed(directory, name) = {} THEN NoStorage
    ELSE LET row == CHOOSE r \in RowsNamed(directory, name) : TRUE IN
         MakeStorage(DatasetType(row.name, {}, row.storage_class), row.id, NoTable)

Find(p, name) == FindIn(byName[p], name)

InconsistentName(dt, storage) == dt.name # storage.datasetType.name

\* register(): `datasetType != storage.datasetType`
Inconsistent(dt, storage) == dt # storage.datasetType

CachedInsertedTrue == TRUE

\* register(): the value of `inserted` in the branch that found the type cached
CachedInserted == FALSE

\* register(): the component dataset types the call goes on to register
ComponentsToRegister(dt, inserted) ==
    IF inserted /\ IsComposite(dt)
    THEN [i \in 1..Len(StorageClassComponents(dt.storageClass)) |->
            Frame(MakeComponentDatasetType(dt, StorageClassComponents(dt.storageClass)[i]), FALSE)]
    ELSE <<>>

RECURSIVE AdvanceRetrying(_, _, _)
AdvanceRetrying(cache, fs, r) ==
    IF fs = <<>>
    THEN [pc |-> "idle", cur |-> NoFrame, frames |-> <<>>, ret |-> r]
    ELSE LET f == Head(fs)
             storage == FindIn(cache, f.datasetType.name) IN
         IF storage = NoStorage
         THEN [pc |-> "sync", cur |-> f, frames |-> Tail(fs), ret |-> r]
         ELSE IF Inconsistent(f.datasetType, storage)
         THEN [pc |-> "idle", cur |-> NoFrame, frames |-> <<>>, ret |-> Raised(r)]
         ELSE AdvanceRetrying(cache,
                              (IF f.top THEN ComponentsToRegister(f.datasetType, TRUE)
                               ELSE <<>>) \o Tail(fs),
                              IF f.top
                              THEN Returned(r, CachedInserted, storage.dataset_type_id)
                              ELSE r)

\* Runs the pending frames of register() up to the next database call: a
\* frame whose type is cached returns at once (or raises on a conflicting
\* definition, which ends the whole call); the first frame whose type is not
\* cached stops at db.sync. With no frame left the caller's call returns.
RECURSIVE Advance(_, _, _)
Advance(cache, fs, r) ==
    IF fs = <<>>
    THEN [pc |-> "idle", cur |-> NoFrame, frames |-> <<>>, ret |-> r]
    ELSE LET f == Head(fs)
             storage == FindIn(cache, f.datasetType.name) IN
         IF storage = NoStorage
         THEN [pc |-> "sync", cur |-> f, frames |-> Tail(fs), ret |-> r]
         ELSE IF Inconsistent(f.datasetType, storage)
         THEN [pc |-> "idle", cur |-> NoFrame, frames |-> <<>>, ret |-> Raised(r)]
         ELSE Advance(cache, Tail(fs),
                      IF f.top
                      THEN Returned(r, CachedInserted, storage.dataset_type_id)
                      ELSE r)

\* The bookkeeping shared by the steps of register(): process p moves to
\* where `a` says, and a call that ended is appended to the call log.
Proceed(p, a) ==
    /\ pc' = [pc EXCEPT ![p] = a.pc]
    /\ cur' = [cur EXCEPT ![p] = a.cur]
    /\ frames' = [frames EXCEPT ![p] = a.frames]
    /\ ret' = [ret EXCEPT ![p] = IF a.pc = "idle" THEN NoReturn ELSE a.ret]
    /\ callLog' = IF a.pc = "idle" THEN Append(callLog, a.ret) ELSE callLog

\* register(datasetType), from the call to its first database call (or to
\* its return when the type is cached).
Register(p, dt) ==
    /\ pc[p] = "idle"
    /\ Len(callLog) + Cardinality({q \in Procs : pc[q] # "idle"}) < MaxCalls
    /\ Proceed(p, Advance(byName[p], <<Frame(dt, TRUE)>>, LogEntry(p, dt, TRUE, FALSE, 0)))
    /\ UNCHANGED <<directory, tables, nextId, byName, byId, cascaded>>
    /\ UNCHANGED refVars
    /\ UNCHANGED expVars
    /\ UNCHANGED addOut
    /\ UNCHANGED <<refreshOut, refreshLoop>>

SyncRaisesNever(s) == FALSE

\* register(): the exception of self._db.sync(...) is not caught
SyncRaises(s) == s.status = "conflict"

\* register(): self._db.sync(...) for the current frame. A row that differs
\* in a compared column makes sync raise, which ends the whole call.
Sync(p) ==
    /\ pc[p] = "sync"
    /\ LET s == DbSync(directory, nextId, cur[p].datasetType) IN
       IF SyncRaises(s)
       THEN /\ Proceed(p, [pc |-> "idle", cur |-> NoFrame, frames |-> <<>>,
                           ret |-> Raised(ret[p])])
            /\ UNCHANGED <<directory, nextId, cascaded>>
       ELSE /\ directory' = s.dir
            /\ nextId' = s.nextId
            /\ cascaded' = IF s.inserted /\ ~cur[p].top
                           THEN cascaded \cup {cur[p].datasetType.name}
                           ELSE cascaded
            /\ pc' = [pc EXCEPT ![p] = "ensure"]
            /\ cur' = [cur EXCEPT ![p] = [@ EXCEPT !.id = s.id, !.inserted = s.inserted]]
            /\ UNCHANGED <<frames, ret, callLog>>
    /\ UNCHANGED <<tables, byName, byId>>
    /\ UNCHANGED refVars
    /\ UNCHANGED expVars
    /\ UNCHANGED addOut
    /\ UNCHANGED <<refreshOut, refreshLoop>>

CacheStorageByNameOnly(bn, bi, storage) ==
    [byName |-> DictSet(bn, storage.datasetType.name, storage), byId |-> bi]

\* register(): self._byName[datasetType.name] = storage;
\*             self._byId[storage._dataset_type_id] = storage
CacheStorage(bn, bi, storage) ==
    [byName |-> DictSet(bn, storage.datasetType.name, storage),
     byId |-> DictSet(bi, storage.dataset_type_id, storage)]

\* register(): self._db.ensureTableExists(...), the two cache assignments,
\* and then the component frames (if any) up to the next database call.
Ensure(p) ==
    /\ pc[p] = "ensure"
    /\ LET f == cur[p]
           dt == f.datasetType
           storage == MakeStorage(dt, f.id, MakeDynamicTableName(dt))
           cache == CacheStorage(byName[p], byId[p], storage)
           r == IF f.top THEN Returned(ret[p], f.inserted, storage.dataset_type_id)
                ELSE ret[p] IN
       /\ tables' = tables \cup {MakeDynamicTableName(dt)}
       /\ byName' = [byName EXCEPT ![p] = cache.byName]
       /\ byId' = [byId EXCEPT ![p] = cache.byId]
       /\ Proceed(p, Advance(cache.byName,
                             ComponentsToRegister(dt, f.inserted) \o frames[p], r))
    /\ UNCHANGED <<directory, nextId, cascaded>>
    /\ UNCHANGED refVars
    /\ UNCHANGED expVars
    /\ UNCHANGED addOut
    /\ UNCHANGED <<refreshOut, refreshLoop>>

\* What a refresh() call found: the process, and the surrogate ids its
\* id->storage cache held when the call began.
RefreshRecord(p, bi) == [called |-> TRUE, proc |-> p, ids |-> DOMAIN bi]

NoRefreshOut == [called |-> FALSE, proc |-> "none", ids |-> {}]

RefreshedCachesKeepIds(rows, tbls, bn, bi) ==
    [byName |-> [n \in {r.name : r \in rows} |->
                    LET row == CHOOSE r \in rows : r.name = n
                        dt == DatasetType(row.name, Decode(row.dimensions_encoded),
                                          row.storage_class) IN
                    MakeStorage(dt, row.id, GetExistingTable(tbls, MakeDynamicTableName(dt)))],
     byId |-> bi]

\* The dicts refresh() builds from the rows of the dataset_type table.
RECURSIVE RefreshedCaches(_, _, _, _)
RefreshedCaches(rows, tbls, bn, bi) ==
    IF rows = {} THEN [byName |-> bn, byId |-> bi]
    ELSE LET row == CHOOSE r \in rows : \A o \in rows : r.id <= o.id
             dt == DatasetType(row.name, Decode(row.dimensions_encoded), row.storage_class)
             storage == MakeStorage(dt, row.id,
                                    GetExistingTable(tbls, MakeDynamicTableName(dt))) IN
         RefreshedCaches(rows \ {row}, tbls, DictSet(bn, dt.name, storage),
                         DictSet(bi, storage.dataset_type_id, storage))

\* refresh()
Refresh(p) ==
    /\ pc[p] = "idle"
    /\ LET c == RefreshedCaches(directory, tables, EmptyDict, EmptyDict) IN
       /\ byName' = [byName EXCEPT ![p] = c.byName]
       /\ byId' = [byId EXCEPT ![p] = c.byId]
    /\ refreshOut' = RefreshRecord(p, byId[p])
    /\ UNCHANGED <<directory, tables, nextId, pc, cur, frames, ret, callLog, cascaded,
                   refreshLoop>>
    /\ UNCHANGED refVars
    /\ UNCHANGED expVars
    /\ UNCHANGED addOut

\* The locals of a refresh() call that runs row by row: the rows fetchall()
\* returned that the loop has still to visit, the dicts byName and byId it
\* is building, and (history) the caches the manager held when it began.
NoRefreshLoop ==
    [pc |-> "idle", proc |-> "none", rows |-> {}, byName |-> EmptyDict, byId |-> EmptyDict,
     beforeName |-> EmptyDict, beforeId |-> EmptyDict, scanned |-> 0]

\* refresh(), up to the query of the directory: the two empty local dicts,
\* and the rows of the query.  A query that raises ends the call.
BeginRefresh(p, fails) ==
    /\ pc[p] = "idle"
    /\ refreshLoop.pc \in {"idle", "returned", "raised"}
    /\ refreshLoop' = [pc |-> IF fails THEN "raised" ELSE "scan", proc |-> p,
                       rows |-> IF fails THEN {} ELSE directory,
                       byName |-> EmptyDict, byId |-> EmptyDict,
                       beforeName |-> byName[p], beforeId |-> byId[p], scanned |-> 0]
    /\ pc' = [pc EXCEPT ![p] = IF fails THEN "idle" ELSE "refresh"]
    /\ UNCHANGED <<directory, tables, nextId, byName, byId, cur, frames, ret, callLog,
                   cascaded, refreshOut, addOut>>
    /\ UNCHANGED refVars
    /\ UNCHANGED expVars

ScanRowInPlace(p, fails) ==
    /\ pc[p] = "refresh"
    /\ refreshLoop.proc = p
    /\ refreshLoop.pc = "scan"
    /\ refreshLoop.rows # {}
    /\ LET row == CHOOSE r \in refreshLoop.rows : \A o \in refreshLoop.rows : r.id <= o.id
           dt == DatasetType(row.name, Decode(row.dimensions_encoded), row.storage_class)
           storage == MakeStorage(dt, row.id,
                                  GetExistingTable(tables, MakeDynamicTableName(dt)))
           cache == CacheStorage(IF refreshLoop.scanned = 0 THEN EmptyDict ELSE byName[p],
                                 IF refreshLoop.scanned = 0 THEN EmptyDict ELSE byId[p],
                                 storage) IN
       IF fails
       THEN /\ refreshLoop' = [refreshLoop EXCEPT !.pc = "raised"]
            /\ pc' = [pc EXCEPT ![p] = "idle"]
            /\ UNCHANGED <<byName, byId>>
       ELSE /\ refreshLoop' = [refreshLoop EXCEPT !.rows = @ \ {row},
                                                  !.byName = cache.byName,
                                                  !.byId = cache.byId,
                                                  !.scanned = @ + 1]
            /\ byName' = [byName EXCEPT ![p] = cache.byName]
            /\ byId' = [byId EXCEPT ![p] = cache.byId]
            /\ UNCHANGED pc
    /\ UNCHANGED <<directory, tables, nextId, cur, frames, ret, callLog, cascaded,
                   refreshOut, addOut>>
    /\ UNCHANGED refVars
    /\ UNCHANGED expVars

\* refresh(), one turn of the loop over the rows: the dataset type of the
\* row, its dynamic table, its storage, filed in the two local dicts.  A
\* decode or a getExistingTable() that raises ends the call.
ScanRow(p, fails) ==
    /\ pc[p] = "refresh"
    /\ refreshLoop.proc = p
    /\ refreshLoop.pc = "scan"
    /\ refreshLoop.rows # {}
    /\ LET row == CHOOSE r \in refreshLoop.rows : \A o \in refreshLoop.rows : r.id <= o.id
           dt == DatasetType(row.name, Decode(row.dimensions_encoded), row.storage_class)
           storage == MakeStorage(dt, row.id,
                                  GetExistingTable(tables, MakeDynamicTableName(dt)))
           cache == CacheStorage(refreshLoop.byName, refreshLoop.byId, storage) IN
       IF fails
       THEN /\ refreshLoop' = [refreshLoop EXCEPT !.pc = "raised"]
            /\ pc' = [pc EXCEPT ![p] = "idle"]
       ELSE /\ refreshLoop' = [refreshLoop EXCEPT !.rows = @ \ {row},
                                                  !.byName = cache.byName,
                                                  !.byId = cache.byId,
                                                  !.scanned = @ + 1]
            /\ UNCHANGED pc
    /\ UNCHANGED <<directory, tables, nextId, byName, byId, cur, frames, ret, callLog,
                   cascaded, refreshOut, addOut>>
    /\ UNCHANGED refVars
    /\ UNCHANGED expVars

\* refresh(): self._byName = byName
AssignByName(p) ==
    /\ pc[p] = "refresh"
    /\ refreshLoop.proc = p
    /\ refreshLoop.pc = "scan"
    /\ refreshLoop.rows = {}
    /\ byName' = [byName EXCEPT ![p] = refreshLoop.byName]
    /\ refreshLoop' = [refreshLoop EXCEPT !.pc = "assign"]
    /\ UNCHANGED <<directory, tables, nextId, byId, pc, cur, frames, ret, callLog,
                   cascaded, refreshOut, addOut>>
    /\ UNCHANGED refVars
    /\ UNCHANGED expVars

\* refresh(): self._byId = byId, and the return
AssignById(p) ==
    /\ pc[p] = "refresh"
    /\ refreshLoop.proc = p
    /\ refreshLoop.pc = "assign"
    /\ byId' = [byId EXCEPT ![p] = refreshLoop.byId]
    /\ refreshLoop' = [refreshLoop EXCEPT !.pc = "returned"]
    /\ pc' = [pc EXCEPT ![p] = "idle"]
    /\ UNCHANGED <<directory, tables, nextId, byName, cur, frames, ret, callLog,
                   cascaded, refreshOut, addOut>>
    /\ UNCHANGED refVars
    /\ UNCHANGED expVars

-----------------------------------------------------------------------------
(* getDatasetRef() and find(), and the other processes that insert and      *)
(* remove datasets and dataset types                                        *)

\* A row of the dataset table: id, dataset_type_id, the run, and the data ID.
DatasetRow(id, typeId, run, dataId) ==
    [id |-> id, dataset_type_id |-> typeId, run |-> run, dataId |-> dataId]

NoDatasetRow == DatasetRow(0, 0, "", <<>>)

\* DatasetRef(datasetType, dataId=..., id=..., run=...)
MakeDatasetRef(storage, row) ==
    [id |-> row.id, datasetType |-> storage.datasetType, dataId |-> row.dataId, run |-> row.run]

NoDatasetRef == [id |-> 0, datasetType |-> DatasetType("", {}, ""), dataId |-> <<>>, run |-> ""]

\* What a getDatasetRef(id) call did: the row it fetched, whether the row's
\* type id was cached, how many refresh() calls it made, the type's
\* directory row and whether the dataset row existed when it looked the type
\* up, and what it returned or raised.
NoGetOut ==
    [called |-> FALSE, proc |-> "none", id |-> 0, row |-> NoDatasetRow, cachedBefore |-> FALSE,
     refreshes |-> 0, typeRows |-> {}, datasetRow |-> FALSE, result |-> "none",
     ref |-> NoDatasetRef, cachedAfter |-> FALSE]

NoFindOut ==
    [called |-> FALSE, proc |-> "none", name |-> "", result |-> NoStorage, cached |-> FALSE,
     inDirectory |-> FALSE]

NeedsRefreshAlways(bi, typeId) == TRUE

\* getDatasetRef(): `if recordsForType is None` after self._byId.get(...)
NeedsRefresh(bi, typeId) == typeId \notin DOMAIN bi

RetryCachesEmpty(dir, tbls) == [byName |-> EmptyDict, byId |-> EmptyDict]

\* getDatasetRef(): self.refresh(universe=universe), the one retry
RetryCaches(dir, tbls) == RefreshedCaches(dir, tbls, EmptyDict, EmptyDict)

MissAfterRefreshAbsent == "absent"

\* getDatasetRef(): `assert recordsForType is not None` failing
MissAfterRefresh == "AssertionError"

\* getDatasetRef(), from the cache lookup on: the caches it leaves, the
\* number of refreshes, and the outcome. `gone` says the dataset row has
\* been removed since it was fetched, which makes getDataId() fail.
GetDatasetRefOp(bn, bi, row, dir, tbls, gone) ==
    LET miss == NeedsRefresh(bi, row.dataset_type_id)
        c == IF miss THEN RetryCaches(dir, tbls) ELSE [byName |-> bn, byId |-> bi] IN
    [byName |-> c.byName, byId |-> c.byId,
     refreshes |-> IF miss THEN 1 ELSE 0,
     result |-> IF row.dataset_type_id \notin DOMAIN c.byId THEN MissAfterRefresh
                ELSE IF gone THEN "error" ELSE "ref",
     ref |-> IF row.dataset_type_id \in DOMAIN c.byId /\ ~gone
             THEN MakeDatasetRef(c.byId[row.dataset_type_id], row) ELSE NoDatasetRef]

\* getDatasetRef(id): the query for the dataset's row; returns None when
\* there is no such row.
GetRow(p, id) ==
    /\ pc[p] = "idle"
    /\ LET rows == {r \in datasetRows : r.id = id} IN
       IF rows = {}
       THEN /\ getOut' = [NoGetOut EXCEPT !.called = TRUE, !.proc = p, !.id = id,
                                          !.result = "absent"]
            /\ UNCHANGED <<pc, getCur>>
       ELSE /\ pc' = [pc EXCEPT ![p] = "getref"]
            /\ getCur' = [getCur EXCEPT ![p] = CHOOSE r \in rows : TRUE]
            /\ UNCHANGED getOut
    /\ UNCHANGED <<directory, tables, nextId, byName, byId, cur, frames, ret, callLog, cascaded,
                   datasetRows, nextDatasetId, findOut>>
    /\ UNCHANGED expVars
    /\ UNCHANGED addOut
    /\ UNCHANGED <<refreshOut, refreshLoop>>

\* getDatasetRef(id): the cache lookup, the refresh on a miss, and the return.
GetRef(p) ==
    /\ pc[p] = "getref"
    /\ LET row == getCur[p]
           out == GetDatasetRefOp(byName[p], byId[p], row, directory, tables,
                                  row \notin datasetRows) IN
       /\ byName' = [byName EXCEPT ![p] = out.byName]
       /\ byId' = [byId EXCEPT ![p] = out.byId]
       /\ getOut' =
                [called |-> TRUE, proc |-> p, id |-> row.id, row |-> row,
                 cachedBefore |-> row.dataset_type_id \in DOMAIN byId[p],
                 refreshes |-> out.refreshes,
                 typeRows |-> {r \in directory : r.id = row.dataset_type_id},
                 datasetRow |-> row \in datasetRows,
                 result |-> out.result, ref |-> out.ref,
                 cachedAfter |-> row.dataset_type_id \in DOMAIN out.byId]
       /\ refreshOut' = IF out.refreshes = 0 THEN refreshOut ELSE RefreshRecord(p, byId[p])
    /\ UNCHANGED refreshLoop
    /\ pc' = [pc EXCEPT ![p] = "idle"]
    /\ getCur' = [getCur EXCEPT ![p] = NoDatasetRow]
    /\ UNCHANGED <<directory, tables, nextId, cur, frames, ret, callLog, cascaded,
                   datasetRows, nextDatasetId, findOut>>
    /\ UNCHANGED expVars
    /\ UNCHANGED addOut

\* a call of find(name)
FindCall(p, name) ==
    /\ findOut' =
            [called |-> TRUE, proc |-> p, name |-> name, result |-> Find(p, name),
             cached |-> name \in DOMAIN byName[p],
             inDirectory |-> RowsNamed(directory, name) # {}]
    /\ UNCHANGED <<directory, tables, nextId, byName, byId, pc, cur, frames, ret, callLog,
                   cascaded, datasetRows, nextDatasetId, getCur, getOut>>
    /\ UNCHANGED expVars
    /\ UNCHANGED addOut
    /\ UNCHANGED <<refreshOut, refreshLoop>>

\* A process that has the dataset type registered inserts a dataset of it
\* into a run (DatasetRecordStorage.insert).
InsertDataset(p, name, run) ==
    /\ pc[p] = "idle"
    /\ Find(p, name) # NoStorage
    /\ \E r \in directory : r.id = Find(p, name).dataset_type_id
    /\ datasetRows' = datasetRows \cup
            {DatasetRow(nextDatasetId, Find(p, name).dataset_type_id, run, <<1>>)}
    /\ nextDatasetId' = nextDatasetId + 1
    /\ UNCHANGED <<directory, tables, nextId, byName, byId, pc, cur, frames, ret, callLog, cascaded,
                   getCur, getOut, findOut>>
    /\ UNCHANGED expVars
    /\ UNCHANGED addOut
    /\ UNCHANGED <<refreshOut, refreshLoop>>

\* `butler prune-collection --purge` run by another process: the datasets
\* of the run are removed.
PruneCollection(run) ==
    /\ \E r \in datasetRows : r.run = run
    /\ datasetRows' = {r \in datasetRows : r.run # run}
    /\ UNCHANGED <<directory, tables, nextId, byName, byId, pc, cur, frames, ret, callLog,
                   cascaded, nextDatasetId, getCur, getOut, findOut>>
    /\ UNCHANGED expVars
    /\ UNCHANGED addOut
    /\ UNCHANGED <<refreshOut, refreshLoop>>

\* `butler remove-dataset-type` run by another process: the directory row
\* is deleted; the foreign key refuses it while a dataset of the type exists.
RemoveDatasetType(name) ==
    /\ RowsNamed(directory, name) # {}
    /\ \A row \in RowsNamed(directory, name) : \A r \in datasetRows : r.dataset_type_id # row.id
    /\ directory' = directory \ RowsNamed(directory, name)
    /\ UNCHANGED <<tables, nextId, byName, byId, pc, cur, frames, ret, callLog, cascaded,
                   datasetRows, nextDatasetId, getCur, getOut, findOut>>
    /\ UNCHANGED expVars
    /\ UNCHANGED addOut
    /\ UNCHANGED <<refreshOut, refreshLoop>>

\* The storage class names the StorageClassFactory knows.
KnownStorageClasses == {"Exposure", "Image", "Wcs"}

\* What an addDatasetType() call with invalid arguments did: its arguments,
\* the exception that left it, whether the manager had the name cached, and
\* the directory it found.
NoAddOut ==
    [called |-> FALSE, proc |-> "none", name |-> "", dimensions |-> {}, storageClass |-> "",
     result |-> "none", cachedBefore |-> FALSE, directory |-> {}]

\* addDatasetType(): the arguments the claim calls invalid.
InvalidArguments(dimensions, storageClass) ==
    \/ ~(dimensions \subseteq Range(DimensionUniverse))
    \/ storageClass \notin KnownStorageClasses

\* addDatasetType() with invalid arguments: the exception that leaves it.
\* DatasetType(...) raises KeyError for a dimension name that is not in the
\* universe; it keeps a storage class name as given, and the name is looked
\* up (KeyError when unknown) where register() reads
\* datasetType.storageClass for db.sync, which a cached name never reaches:
\* there register() compares the definitions and raises. KeyError leaves
\* addDatasetType as ValueError, any other exception as it is.
AddDatasetTypeError(cache, name, dimensions, storageClass) ==
    IF ~(dimensions \subseteq Range(DimensionUniverse)) THEN "ValueError"
    ELSE IF /\ FindIn(cache, name) # NoStorage
            /\ Inconsistent(DatasetType(name, dimensions, storageClass), FindIn(cache, name))
    THEN "ConflictingDefinitionError"
    ELSE "ValueError"

\* addDatasetType(butler, name, dimensions, storageClass): with valid
\* arguments it is registry.registerDatasetType(), that is register(); with
\* invalid ones it raises before any database call.
AddDatasetType(p, name, dimensions, storageClass) ==
    /\ pc[p] = "idle"
    /\ IF ~InvalidArguments(dimensions, storageClass)
       THEN Register(p, DatasetType(name, dimensions, storageClass))
       ELSE /\ addOut' = [called |-> TRUE, proc |-> p, name |-> name,
                          dimensions |-> dimensions, storageClass |-> storageClass,
                          result |-> AddDatasetTypeError(byName[p], name, dimensions,
                                                         storageClass),
                          cachedBefore |-> name \in DOMAIN byName[p],
                          directory |-> directory]
            /\ UNCHANGED <<directory, tables, nextId, byName, byId, pc, cur, frames, ret,
                           callLog, cascaded, refreshOut, refreshLoop>>
            /\ UNCHANGED refVars
            /\ UNCHANGED expVars

NextMgr ==
    \/ \E p \in Procs, dt \in RegisterInputs : Register(p, dt)
    \/ \E p \in Procs : Sync(p)
    \/ \E p \in Procs : Ensure(p)
    \/ \E p \in Procs : Refresh(p)


-----------------------------------------------------------------------------
(* Ordering of the values the export sorts *)

\* sorted() / list.sort(): a stable insertion sort of seq by the integer keys
\* (keys[i] is the key of seq[i]).
RECURSIVE InsertByKey(_, _)
InsertByKey(sorted, x) ==
    IF sorted = <<>> THEN <<x>>
    ELSE IF x.k < Head(sorted).k THEN <<x>> \o sorted
    ELSE <<Head(sorted)>> \o InsertByKey(Tail(sorted), x)

RECURSIVE SortPairs(_)
SortPairs(pairs) ==
    IF pairs = <<>> THEN <<>>
    ELSE InsertByKey(SortPairs(SubSeq(pairs, 1, Len(pairs) - 1)), pairs[Len(pairs)])

SortByKey(seq, keys) ==
    LET sorted == SortPairs([i \in 1..Len(seq) |-> [k |-> keys[i], v |-> seq[i]]]) IN
    [i \in 1..Len(sorted) |-> sorted[i].v]

\* A set as a list, in some fixed order (used only where the code sorts next).
RECURSIVE SetToSeq(_)
SetToSeq(S) ==
    IF S = {} THEN <<>>
    ELSE LET x == CHOOSE y \in S : TRUE IN <<x>> \o SetToSeq(S \ {x})

\* The strings that get compared, in ascending lexicographic order.
StringOrder == <<"bias", "c1", "c2", "c3", "k1", "mock", "moved", "r1", "r2", "raw", "store", "t1">>

StrRank(str) == CHOOSE i \in 1..Len(StringOrder) : StringOrder[i] = str

\* sorted() of a list of strings
SortStrings(seq) == SortByKey(seq, [i \in 1..Len(seq) |-> StrRank(seq[i])])

\* sorted() of a set of strings
SortStringSet(S) == SortStrings(SetToSeq(S))

-----------------------------------------------------------------------------
(* The registry's collections (a collaborator of the export context) *)

\* CollectionRecord.type of each collection of the catalog.
CollectionType(name) ==
    IF name \in {"r1", "r2"} THEN "RUN"
    ELSE IF name = "t1" THEN "TAGGED"
    ELSE IF name = "k1" THEN "CALIBRATION"
    ELSE "CHAINED"

\* registry._collections.find(name): the collection's record; `children` is
\* the chain's current definition in the catalog (empty unless CHAINED).
CollectionRecord(name, children) ==
    [name |-> name, type |-> CollectionType(name),
     children |-> IF CollectionType(name) = "CHAINED" THEN children ELSE <<>>]

\* registry.getCollectionDocumentation(name)
CollectionDocumentation(name) == <<"doc of", name>>

-----------------------------------------------------------------------------
(* Python dicts that are iterated: a sequence of entries in insertion order *)

OKeys(d) == [i \in 1..Len(d) |-> d[i].key]

OKeySet(d) == {d[i].key : i \in 1..Len(d)}

OGet(d, k) == d[CHOOSE i \in 1..Len(d) : d[i].key = k].value

\* d[k] = v: a key that is present keeps its position.
OSet(d, k, v) ==
    IF k \in OKeySet(d)
    THEN [i \in 1..Len(d) |-> IF d[i].key = k THEN [key |-> k, value |-> v] ELSE d[i]]
    ELSE Append(d, [key |-> k, value |-> v])

\* d.values()
OValues(d) == [i \in 1..Len(d) |-> d[i].value]

-----------------------------------------------------------------------------
(* RepoExportContext *)

\* __init__
EmptyContext ==
    [records |-> <<>>, dataset_ids |-> {}, datasets |-> <<>>, collections |-> <<>>]

SaveCollectionOpKeepFirst(c, name, children) ==
    IF name \in OKeySet(c.collections) THEN c
    ELSE [c EXCEPT !.collections = Append(@, [key |-> name,
                                             value |-> CollectionRecord(name, children)])]

\* saveCollection(name): self._collections[name] = self._registry._collections.find(name)
SaveCollectionOp(c, name, children) ==
    [c EXCEPT !.collections = OSet(@, name, CollectionRecord(name, children))]

\* _computeSortedCollections(): the first loop, which fills `chains`
\* (name -> list(children)) with the CHAINED records.
ChainsOf(colls) ==
    LET recs == SelectSeq(OValues(colls), LAMBDA r : r.type = "CHAINED") IN
    [i \in 1..Len(recs) |-> [key |-> recs[i].name, value |-> recs[i].children]]

NonChainNamesUnsorted(colls) ==
    LET recs == SelectSeq(OValues(colls), LAMBDA r : r.type # "CHAINED") IN
    [i \in 1..Len(recs) |-> recs[i].name]

\* _computeSortedCollections(): the first loop's `result`, after result.sort()
NonChainNames(colls) ==
    LET recs == SelectSeq(OValues(colls), LAMBDA r : r.type # "CHAINED") IN
    SortStrings([i \in 1..Len(recs) |-> recs[i].name])

UnblockedFirstChild(chains) ==
    {chains[i].key : i \in {j \in 1..Len(chains) :
        chains[j].value = <<>> \/ chains[j].value[1] \notin OKeySet(chains)}}

\* _computeSortedCollections(): the set comprehension `unblocked`
Unblocked(chains) ==
    {chains[i].key : i \in {j \in 1..Len(chains) :
        ~\E k \in 1..Len(chains[j].value) : chains[j].value[k] \in OKeySet(chains)}}

\* sorted(unblocked): the names of the set in the order of the strings
SortedNames(names) == SelectSeq(StringOrder, LAMBDA n : n \in names)

KeepChains(chains, unblocked) == chains

\* for name in unblocked: del chains[name]
DeleteChains(chains, unblocked) == SelectSeq(chains, LAMBDA e : e.key \notin unblocked)

\* _computeSortedCollections(): the names the RuntimeError's message gives,
\* f"... involving {unblocked}."
CycleErrorNames(chains, unblocked) == unblocked

\* _computeSortedCollections() never raising: the chains that are left when
\* nothing is unblocked are appended in sorted order.
RECURSIVE SortChainsNoRaise(_, _)
SortChainsNoRaise(chains, result) ==
    IF chains = <<>>
    THEN [raised |-> FALSE, names |-> result, involving |-> {}]
    ELSE LET unblocked == IF Unblocked(chains) = {} THEN OKeySet(chains)
                          ELSE Unblocked(chains) IN
         SortChainsNoRaise(SelectSeq(chains, LAMBDA e : e.key \notin unblocked),
                           result \o SortStringSet(unblocked))

RECURSIVE SortChainsOneByOne(_, _)
SortChainsOneByOne(chains, result) ==
    IF chains = <<>>
    THEN [raised |-> FALSE, names |-> result, involving |-> {}]
    ELSE LET unblocked == Unblocked(chains) IN
         IF unblocked = {}
         THEN [raised |-> TRUE, names |-> <<>>,
               involving |-> CycleErrorNames(chains, unblocked)]
         ELSE LET first == SortStringSet(unblocked)[1] IN
              SortChainsOneByOne(SelectSeq(chains, LAMBDA e : e.key # first),
                                 Append(result, first))

\* _computeSortedCollections(): the while loop. It returns the list, or
\* raises RuntimeError (raised = TRUE, with the names in the message).
RECURSIVE SortChains(_, _)
SortChains(chains, result) ==
    IF chains = <<>>
    THEN [raised |-> FALSE, names |-> result, involving |-> {}]
    ELSE LET unblocked == Unblocked(chains) IN
         IF unblocked = {}
         THEN [raised |-> TRUE, names |-> <<>>,
               involving |-> CycleErrorNames(chains, unblocked)]
         ELSE SortChains(SelectSeq(chains, LAMBDA e : e.key \notin unblocked),
                         result \o SortStringSet(unblocked))

\* _computeSortedCollections()
ComputeSortedCollections(colls) == SortChains(ChainsOf(colls), NonChainNames(colls))

-----------------------------------------------------------------------------
(* The catalog the export reads: dimension records, datasets, associations *)

\* registry.dimensions.sorted(): the universe's elements, dependencies first.
ElementOrder == <<"instrument", "visit">>

ElementRank(e) == CHOOSE i \in 1..Len(ElementOrder) : ElementOrder[i] = e

\* element.hasTable() and element.viewOf is None
ElementIsExported(e) == e \in {"instrument", "visit"}

\* A data ID is the tuple of its key values: <<instrument>> or
\* <<instrument, visit>>. DataCoordinate ordering compares the values.
DataIdKey(d) == 10 * d[1] + (IF Len(d) > 1 THEN d[2] ELSE 0)

DimensionRecord(element, dataId, detail) ==
    [definition |-> element, dataId |-> dataId, detail |-> detail]

\* registry.expandDataId(dataId).records.values(): the catalog's record of
\* every element of the data ID's graph.
ExpandedRecords(d) ==
    [i \in 1..Len(d) |-> DimensionRecord(ElementOrder[i], SubSeq(d, 1, i), "catalog")]

\* DatasetType.isCalibration()
IsCalibration(name) == name = "bias"

\* A ref's run that is None.
NoRun == ""

DatasetRef(id, datasetType, dataId, run) ==
    [id |-> id, datasetType |-> datasetType, dataId |-> dataId, run |-> run]

\* The datasets of the catalog.
CatalogRefs ==
    { DatasetRef(1, "raw", <<1, 2>>, "r1"),
      DatasetRef(2, "raw", <<1, 1>>, "r1"),
      DatasetRef(3, "bias", <<1>>, "r2") }

\* DatasetRef ordering: (run, dataset type, data ID), a run that is None
\* counting as the empty string.
RefKey(ref) ==
    10000 * (IF ref.run = NoRun THEN 0 ELSE StrRank(ref.run))
        + 100 * StrRank(ref.datasetType) + DataIdKey(ref.dataId)

DatasetAssociation(ref, collection, timespan) ==
    [ref |-> ref, collection |-> collection, timespan |-> timespan]

\* The catalog's associations of datasets with TAGGED and CALIBRATION collections.
CatalogAssociations ==
    { DatasetAssociation(DatasetRef(1, "raw", <<1, 2>>, "r1"), "t1", <<>>),
      DatasetAssociation(DatasetRef(2, "raw", <<1, 1>>, "r1"), "t1", <<>>),
      DatasetAssociation(DatasetRef(3, "bias", <<1>>, "r2"), "t1", <<>>),
      DatasetAssociation(DatasetRef(3, "bias", <<1>>, "r2"), "k1", <<0, 10>>) }

\* registry.queryDatasetAssociations(datasetType, collections=..., collectionTypes=...,
\* flattenChains=False), in the order the query yields them.
QueryDatasetAssociations(datasetType, collections, collectionTypes) ==
    LET found == {a \in CatalogAssociations :
                    /\ a.ref.datasetType = datasetType
                    /\ a.collection \in collections
                    /\ CollectionType(a.collection) \in collectionTypes}
        seq == SetToSeq(found) IN
    SortByKey(seq, [i \in 1..Len(seq) |-> 0 - seq[i].ref.id])

\* DatasetAssociation ordering: by ref (the collection is the same within a
\* list), then by the start of the timespan.
AssociationKey(a) == 100 * RefKey(a.ref) + (IF a.timespan = <<>> THEN 0 ELSE 1 + a.timespan[1])

\* FileDataset(refs=[ref], path=..., formatter=...); a path is a directory
\* and a file number.
FileDataset(ref, dir) == [refs |-> <<ref>>, path |-> <<dir, ref.id>>, formatter |-> "Formatter"]

\* Datastore.export([ref]) of a file datastore: one FileDataset holding the
\* ref, at the dataset's own path.
DatastoreExport(ref) == <<FileDataset(ref, "store")>>

\* DatastoreMock._mock_export([ref]): one FileDataset holding the ref, at
\* the path "mock/path" whatever the ref.
MockExport(ref) == <<[FileDataset(ref, "mock") EXCEPT !.path[2] = 0]>>

\* The datastores a RepoExportContext is constructed with.
Datastores == {"file", "mock"}

\* self._datastore.export([ref], directory=..., transfer=...)
Export(ds, ref) == IF ds = "mock" THEN MockExport(ref) ELSE DatastoreExport(ref)

\* The dataset whose artifact a datastore that lost a file no longer has:
\* Datastore.export raises for it.
ExportRaises(ds, ref) == ds = "partial" /\ ref.id = 2

\* The `rewrite` callables callers pass: None, one that moves the path, or
\* one that raises.
Rewrite(rewrite, fd) == IF rewrite = "None" THEN fd ELSE [fd EXCEPT !.path[1] = "moved"]

RewriteRaises(rewrite, fd) == rewrite = "raise"

\* FileDataset ordering: by path.
FileDatasetKey(fd) == 100 * StrRank(fd.path[1]) + fd.path[2]

-----------------------------------------------------------------------------
(* RepoExportContext: dimension records and datasets *)

SetItemRecord(records, element, record) ==
    LET inner == IF element \in OKeySet(records) THEN OGet(records, element) ELSE <<>> IN
    OSet(records, element, OSet(inner, record.dataId, record))

\* self._records[element].setdefault(record.dataId, record)
SetDefaultRecord(records, element, record) ==
    LET inner == IF element \in OKeySet(records) THEN OGet(records, element) ELSE <<>> IN
    OSet(records, element,
         IF record.dataId \in OKeySet(inner) THEN inner
         ELSE Append(inner, [key |-> record.dataId, value |-> record]))

\* A member of the `records` argument of saveDimensionData(): a dict of
\* field values, or a DimensionRecord with its own definition.
DictRecord(dataId, detail) ==
    [isDict |-> TRUE, definition |-> "", dataId |-> dataId, detail |-> detail]

GivenRecord(definition, dataId, detail) ==
    [isDict |-> FALSE, definition |-> definition, dataId |-> dataId, detail |-> detail]

\* record = element.RecordClass(**record) for a dict; a DimensionRecord is
\* taken as it is, with its own definition.
AsRecord(element, r) ==
    DimensionRecord(IF r.isDict THEN element ELSE r.definition, r.dataId, r.detail)

MismatchNever(element, r) == FALSE

\* elif record.definition != element: raise ValueError(...)
Mismatch(element, r) == ~r.isDict /\ r.definition # element

\* saveDimensionData(element, records): the loop over the records. A record
\* given as a dict becomes a record of `element`; a DimensionRecord of
\* another element raises ValueError, after the records before it were stored.
RECURSIVE SaveDimensionDataOp(_, _, _)
SaveDimensionDataOp(c, element, records) ==
    IF records = <<>> THEN [ctx |-> c, raised |-> FALSE]
    ELSE LET r == Head(records) IN
         IF Mismatch(element, r)
         THEN [ctx |-> c, raised |-> TRUE]
         ELSE SaveDimensionDataOp(
                [c EXCEPT !.records = SetDefaultRecord(@, element, AsRecord(element, r))],
                element, Tail(records))

\* The `elements` argument of saveDataIds() and saveDatasets(): None, or
\* the given element names.
ElementsNone == [given |-> FALSE, names |-> {}]

ElementsOf(names) == [given |-> TRUE, names |-> names]

\* saveDataIds(): the set `elements` its loop over the data IDs tests
\* against. With elements=None it is every element with a table that is not
\* a view. Otherwise the code rebinds `elements` to an empty set and then
\* loops over that same (now empty) set, so nothing is ever added to it.
SelectedElements(elements) ==
    IF ~elements.given
    THEN {ElementOrder[i] : i \in {j \in 1..Len(ElementOrder) : ElementIsExported(ElementOrder[j])}}
    ELSE LET rebound == {} IN {e \in rebound : ElementIsExported(e)}

RECURSIVE SaveExpandedRecords(_, _, _)
SaveExpandedRecords(records, expanded, selected) ==
    IF expanded = <<>> THEN records
    ELSE SaveExpandedRecords(
            IF Head(expanded).definition \in selected
            THEN SetDefaultRecord(records, Head(expanded).definition, Head(expanded))
            ELSE records,
            Tail(expanded), selected)

\* saveDataIds(dataIds, elements=...)
RECURSIVE SaveDataIdsOp(_, _, _)
SaveDataIdsOp(c, dataIds, elements) ==
    IF dataIds = <<>> THEN c
    ELSE SaveDataIdsOp(
            [c EXCEPT !.records = SaveExpandedRecords(@, ExpandedRecords(Head(dataIds)),
                                                      SelectedElements(elements))],
            Tail(dataIds), elements)

\* sorted(refs)
SortRefs(refs) == SortByKey(refs, [i \in 1..Len(refs) |-> RefKey(refs[i])])

ReplaceDatasets(datasets, ref, exports) ==
    LET byRun == IF ref.datasetType \in OKeySet(datasets)
                 THEN OGet(datasets, ref.datasetType) ELSE <<>> IN
    OSet(datasets, ref.datasetType, OSet(byRun, ref.run, exports))

\* self._datasets[ref.datasetType][ref.run].extend(exports)
ExtendDatasets(datasets, ref, exports) ==
    LET byRun == IF ref.datasetType \in OKeySet(datasets)
                 THEN OGet(datasets, ref.datasetType) ELSE <<>>
        list == IF ref.run \in OKeySet(byRun) THEN OGet(byRun, ref.run) ELSE <<>> IN
    OSet(datasets, ref.datasetType, OSet(byRun, ref.run, list \o exports))

\* A call the session makes on its datastore or on the caller's rewrite.
DatastoreCall(op, id) == [op |-> op, id |-> id]

AlreadySeenNever(c, ref) == FALSE

\* if ref.id in self._dataset_ids: continue
AlreadySeen(c, ref) == ref.id \in c.dataset_ids

\* saveDatasets(): the loop over sorted(refs), given the refs still to do.
\* Returns the context, the set `dataIds` the loop collected, the export
\* and rewrite calls it made, and the exception that ended it ("" if none).
RECURSIVE ExportRefs(_, _, _, _, _)
ExportRefs(c, refs, rewrite, dataIds, calls) ==
    IF refs = <<>> THEN [ctx |-> c, dataIds |-> dataIds, calls |-> calls, raised |-> ""]
    ELSE LET ref == Head(refs) IN
         IF AlreadySeen(c, ref)
         THEN ExportRefs(c, Tail(refs), rewrite, dataIds, calls)
         ELSE LET added == dataIds \cup {ref.dataId}
                  exported == Append(calls, DatastoreCall("export", ref.id))
                  rewritten == IF rewrite = "None" THEN exported
                               ELSE Append(exported, DatastoreCall("rewrite", ref.id))
                  exports == [i \in 1..Len(Export(datastore, ref)) |->
                                Rewrite(rewrite, Export(datastore, ref)[i])]
                  seen == [c EXCEPT !.dataset_ids = @ \cup {ref.id}] IN
              IF ExportRaises(datastore, ref)
              THEN [ctx |-> c, dataIds |-> added, calls |-> exported,
                    raised |-> "FileNotFoundError"]
              ELSE IF \E i \in 1..Len(Export(datastore, ref)) :
                            RewriteRaises(rewrite, Export(datastore, ref)[i])
              THEN [ctx |-> c, dataIds |-> added, calls |-> rewritten,
                    raised |-> "RewriteError"]
              ELSE IF ref.run = NoRun
              THEN [ctx |-> seen, dataIds |-> added, calls |-> rewritten,
                    raised |-> "AssertionError"]
              ELSE ExportRefs([seen EXCEPT !.datasets = ExtendDatasets(@, ref, exports)],
                              Tail(refs), rewrite, added, rewritten)

\* The orders in which a Python set may be iterated.
SetOrders(S) ==
    {o \in [1..Cardinality(S) -> S] : \A i, j \in 1..Cardinality(S) : i # j => o[i] # o[j]}

SaveDatasetsOpNoDataIds(c, refs, elements, rewrite, order) ==
    ExportRefs(c, SortRefs(refs), rewrite, {}, <<>>).ctx

\* saveDatasets(refs, elements=..., rewrite=...); `order` is the order in
\* which the final saveDataIds() iterates the set of data IDs. An exception
\* in the loop ends the call before saveDataIds().
SaveDatasetsOp(c, refs, elements, rewrite, order) ==
    LET loop == ExportRefs(c, SortRefs(refs), rewrite, {}, <<>>) IN
    IF loop.raised # "" THEN loop.ctx ELSE SaveDataIdsOp(loop.ctx, order, elements)

-----------------------------------------------------------------------------
(* RepoExportContext._finish *)

BackendCall(op, args) == [op |-> op, args |-> args]

DimensionDataCallsUnsorted(c) ==
    [i \in 1..Len(c.records) |->
        BackendCall("saveDimensionData", <<c.records[i].key, OValues(c.records[i].value)>>)]

\* _finish(): the saveDimensionData calls, one per element that has records,
\* in the universe's order, each with its records sorted by data ID.
DimensionDataCalls(c) ==
    LET elements == SortByKey(OKeys(c.records),
                              [i \in 1..Len(c.records) |-> ElementRank(c.records[i].key)]) IN
    [i \in 1..Len(elements) |->
        LET r == OGet(c.records, elements[i])
            ids == SortByKey(OKeys(r), [j \in 1..Len(r) |-> DataIdKey(r[j].key)]) IN
        BackendCall("saveDimensionData",
                    <<elements[i], [j \in 1..Len(ids) |-> OGet(r, ids[j])]>>)]

\* The runs of self._datasets, in the order of the two nested loops.
RECURSIVE RunsOfDatasets(_)
RunsOfDatasets(datasets) ==
    IF datasets = <<>> THEN <<>>
    ELSE OKeys(Head(datasets).value) \o RunsOfDatasets(Tail(datasets))

RECURSIVE SaveRuns(_, _)
SaveRuns(colls, runs) ==
    IF runs = <<>> THEN colls
    ELSE SaveRuns(OSet(colls, Head(runs), CollectionRecord(Head(runs), <<>>)), Tail(runs))

SkipRunCollections(c) == c

\* _finish(): self._collections[run] = self._registry._collections.find(run)
\* for every run that has exported datasets.
AddRunCollections(c) ==
    [c EXCEPT !.collections = SaveRuns(@, RunsOfDatasets(c.datasets))]

\* _finish(): the saveCollection calls, in the order `names`.
CollectionCalls(c, names) ==
    [i \in 1..Len(names) |->
        BackendCall("saveCollection",
                    <<OGet(c.collections, names[i]), CollectionDocumentation(names[i])>>)]

RECURSIVE Flatten(_)
Flatten(seqs) == IF seqs = <<>> THEN <<>> ELSE Head(seqs) \o Flatten(Tail(seqs))

DatasetCallsUnsorted(c) ==
    Flatten([i \in 1..Len(c.datasets) |->
        [j \in 1..Len(c.datasets[i].value) |->
            BackendCall("saveDatasets",
                        <<c.datasets[i].key, c.datasets[i].value[j].key,
                          c.datasets[i].value[j].value>>)]])

\* _finish(): the saveDatasets calls, by sorted dataset type and sorted run,
\* each with its sorted FileDatasets.
DatasetCalls(c) ==
    LET types == SortStrings(OKeys(c.datasets)) IN
    Flatten([i \in 1..Len(types) |->
        LET byRun == OGet(c.datasets, types[i])
            runs == SortStrings(OKeys(byRun)) IN
        [j \in 1..Len(runs) |->
            LET fds == OGet(byRun, runs[j]) IN
            BackendCall("saveDatasets",
                        <<types[i], runs[j],
                          SortByKey(fds, [k \in 1..Len(fds) |-> FileDatasetKey(fds[k])])>>)]])

RECURSIVE AppendAssociationsUnfiltered(_, _, _)
AppendAssociationsUnfiltered(results, associations, ids) ==
    IF associations = <<>> THEN results
    ELSE LET a == Head(associations) IN
         AppendAssociationsUnfiltered(
            OSet(results, a.collection,
                 (IF a.collection \in OKeySet(results)
                  THEN OGet(results, a.collection) ELSE <<>>) \o <<a>>),
            Tail(associations), ids)

\* results[association.collection].append(association) for the associations
\* of one query whose dataset was exported.
RECURSIVE AppendAssociations(_, _, _)
AppendAssociations(results, associations, ids) ==
    IF associations = <<>> THEN results
    ELSE LET a == Head(associations) IN
         AppendAssociations(
            IF a.ref.id \in ids
            THEN OSet(results, a.collection,
                      (IF a.collection \in OKeySet(results)
                       THEN OGet(results, a.collection) ELSE <<>>) \o <<a>>)
            ELSE results,
            Tail(associations), ids)

\* _computeDatasetAssociations(): the loop over the exported dataset types.
RECURSIVE AssociationsOfTypes(_, _, _)
AssociationsOfTypes(c, types, results) ==
    IF types = <<>> THEN results
    ELSE AssociationsOfTypes(c, Tail(types),
            AppendAssociations(results,
                QueryDatasetAssociations(Head(types), OKeySet(c.collections),
                    {"TAGGED"} \cup (IF IsCalibration(Head(types)) THEN {"CALIBRATION"} ELSE {})),
                c.dataset_ids))

ComputeDatasetAssociationsFlattened(c) ==
    LET chains == {n \in OKeySet(c.collections) : OGet(c.collections, n).type = "CHAINED"}
        through == UNION {{[a EXCEPT !.collection = n] :
                              a \in {b \in CatalogAssociations :
                                        b.collection \in Range(OGet(c.collections, n).children)}} :
                          n \in chains} IN
    AppendAssociations(AssociationsOfTypes(c, OKeys(c.datasets), <<>>),
                       SetToSeq(through), c.dataset_ids)

\* _computeDatasetAssociations()
ComputeDatasetAssociations(c) == AssociationsOfTypes(c, OKeys(c.datasets), <<>>)

AssociationCallsUnscoped(c) ==
    LET found == {a \in CatalogAssociations : a.ref.id \in c.dataset_ids}
        names == SortStringSet({a.collection : a \in found}) IN
    [i \in 1..Len(names) |->
        LET list == SetToSeq({a \in found : a.collection = names[i]}) IN
        BackendCall("saveDatasetAssociations",
                    <<names[i], CollectionType(names[i]),
                      SortByKey(list, [k \in 1..Len(list) |-> AssociationKey(list[k])])>>)]

\* _finish(): the saveDatasetAssociations calls, by sorted collection, each
\* with its sorted associations.
AssociationCalls(c) ==
    LET results == ComputeDatasetAssociations(c)
        names == SortStrings(OKeys(results)) IN
    [i \in 1..Len(names) |->
        LET list == OGet(results, names[i]) IN
        BackendCall("saveDatasetAssociations",
                    <<names[i], OGet(c.collections, names[i]).type,
                      SortByKey(list, [k \in 1..Len(list) |-> AssociationKey(list[k])])>>)]

DatasetsBeforeCollections(dimensions, collections, datasets, associations) ==
    dimensions \o datasets \o collections \o associations \o <<BackendCall("finish", <<>>)>>

\* _finish(): the order of its phases when nothing raises.
FinishCalls(dimensions, collections, datasets, associations) ==
    dimensions \o collections \o datasets \o associations \o <<BackendCall("finish", <<>>)>>

\* _finish(): the context it leaves, the backend calls it makes, and whether
\* it raised (the cycle error of _computeSortedCollections).
FinishOp(c) ==
    LET c2 == AddRunCollections(c)
        sorted == ComputeSortedCollections(c2.collections) IN
    [ctx |-> c2,
     raised |-> sorted.raised,
     userSaved |-> OKeySet(c.collections),
     sortInput |-> c2.collections,
     sorted |-> sorted,
     calls |-> IF sorted.raised THEN DimensionDataCalls(c)
               ELSE FinishCalls(DimensionDataCalls(c), CollectionCalls(c2, sorted.names),
                                DatasetCalls(c2), AssociationCalls(c2))]

NoSortResult == [raised |-> FALSE, names |-> <<>>, involving |-> {}]

NoSortOut == [called |-> FALSE, input |-> <<>>, result |-> NoSortResult]

\* The state of a _computeSortedCollections() call: where it is (idle, in
\* the while loop, returned or raised), its `chains` and `result`, the
\* passes of the loop body it has made, and the chains it began with.
NoSortLoop == [pc |-> "idle", chains |-> <<>>, result |-> <<>>, passes |-> 0, pending |-> 0]

\* What the callers of a session have passed in so far: the names given to
\* saveCollection, the refs given to saveDatasets, whether every call was
\* a saveCollection or a saveDatasets with the default elements and rewrite,
\* and the names that were saved again after their definition had changed.
NoAsked == [names |-> {}, refs |-> {}, plain |-> TRUE, redefined |-> {}]

NoFinishOut ==
    [called |-> FALSE, raised |-> FALSE, userSaved |-> {}, sortInput |-> <<>>,
     sorted |-> NoSortResult, calls |-> <<>>, asked |-> NoAsked]

NoDataIdsOut ==
    [called |-> FALSE, dataIds |-> <<>>, elements |-> ElementsNone,
     before |-> <<>>, after |-> <<>>]

\* What a saveDatasets(refs, elements=..., rewrite=...) call did: its
\* arguments, the exception that ended it ("" if it returned), the context
\* before and after, and the export and rewrite calls it made.
NoDatasetsOut ==
    [called |-> FALSE, refs |-> <<>>, elements |-> ElementsNone, rewrite |-> "None",
     raised |-> "", before |-> EmptyContext, after |-> EmptyContext, calls |-> <<>>]

\* What a saveDimensionData(element, records) call did: its arguments,
\* whether it raised ValueError, and the record store before and after.
NoDimDataOut ==
    [called |-> FALSE, element |-> "", records |-> <<>>, raised |-> FALSE,
     before |-> <<>>, after |-> <<>>]

-----------------------------------------------------------------------------
(* Import: the sections of an export replayed into a catalog               *)

\* A catalog with nothing in it. `ok` turns FALSE when a section refers to
\* something the catalog does not have.
EmptyCatalog ==
    [records |-> {}, collections |-> {}, datasetTypes |-> <<>>, datasets |-> {},
     associations |-> {}, ok |-> TRUE]

\* The dimension records a data ID needs: one per element of its graph.
RequiredRecords(dataId) == {<<ElementOrder[i], SubSeq(dataId, 1, i)>> : i \in 1..Len(dataId)}

\* One section replayed. Dimension records need the records they depend
\* on; a chain needs its children; datasets need their RUN collection and
\* the records of their data IDs, and add a dataset type row unless the
\* type has one; associations need their collection and their datasets.
ReplayCall(cat, call) ==
    IF ~cat.ok \/ call.op = "finish" THEN cat
    ELSE IF call.op = "saveDimensionData"
    THEN LET new == {<<call.args[1], r.dataId>> : r \in Range(call.args[2])} IN
         [cat EXCEPT !.records = @ \cup new,
                     !.ok = \A k \in new : RequiredRecords(k[2]) \subseteq (cat.records \cup new)]
    ELSE IF call.op = "saveCollection"
    THEN [cat EXCEPT !.collections = @ \cup {call.args[1]},
                     !.ok = Range(call.args[1].children) \subseteq {c.name : c \in cat.collections}]
    ELSE IF call.op = "saveDatasets"
    THEN LET refs == UNION {Range(fd.refs) : fd \in Range(call.args[3])} IN
         [cat EXCEPT !.datasetTypes = IF call.args[1] \in Range(@) THEN @
                                      ELSE Append(@, call.args[1]),
                     !.datasets = @ \cup {DatasetRef(r.id, call.args[1], r.dataId, call.args[2]) :
                                            r \in refs},
                     !.ok = /\ \E c \in cat.collections : c.name = call.args[2] /\ c.type = "RUN"
                            /\ \A r \in refs : RequiredRecords(r.dataId) \subseteq cat.records]
    ELSE [cat EXCEPT !.associations = @ \cup {<<call.args[1], a.ref.id>> : a \in Range(call.args[3])},
                     !.ok = /\ \E c \in cat.collections : c.name = call.args[1]
                            /\ \A a \in Range(call.args[3]) :
                                  \E d \in cat.datasets : d.id = a.ref.id]

\* The sections replayed in the order they were emitted.
RECURSIVE Replay(_, _)
Replay(cat, calls) ==
    IF calls = <<>> THEN cat ELSE Replay(ReplayCall(cat, Head(calls)), Tail(calls))

-----------------------------------------------------------------------------
(* The calls on a RepoExportContext *)

SaveCollectionEager(name, children) ==
    /\ ctx' = SaveCollectionOp(ctx, name, children)
    /\ backend' = Append(backend, BackendCall("saveCollection",
                            <<CollectionRecord(name, children), CollectionDocumentation(name)>>))
    /\ sortOut' = NoSortOut
    /\ asked' = [asked EXCEPT !.names = @ \cup {name},
                              !.redefined =
                                 IF /\ name \in OKeySet(ctx.collections)
                                    /\ OGet(ctx.collections, name) # CollectionRecord(name, children)
                                 THEN @ \cup {name} ELSE @]
    /\ UNCHANGED <<finishOut, nFinish, datastore, dataIdsOut, dimDataOut, datasetsOut, datastoreCalls>>
    /\ UNCHANGED sortLoop
    /\ UNCHANGED mgrVars

\* saveCollection(name); `children` is what the catalog lists for the chain
\* at the time of the call.
SaveCollection(name, children) ==
    /\ ctx' = SaveCollectionOp(ctx, name, children)
    /\ sortOut' = NoSortOut
    /\ asked' = [asked EXCEPT !.names = @ \cup {name},
                              !.redefined =
                                 IF /\ name \in OKeySet(ctx.collections)
                                    /\ OGet(ctx.collections, name) # CollectionRecord(name, children)
                                 THEN @ \cup {name} ELSE @]
    /\ UNCHANGED <<backend, finishOut, nFinish, datastore, dataIdsOut, dimDataOut, datasetsOut, datastoreCalls>>
    /\ UNCHANGED sortLoop
    /\ UNCHANGED mgrVars

\* saveDatasets(refs, elements=elements, rewrite=rewrite): what the call
\* does to the session.
SaveDatasetsCall(refs, elements, rewrite) ==
    /\ LET loop == ExportRefs(ctx, SortRefs(refs), rewrite, {}, <<>>) IN
       /\ \E order \in SetOrders(loop.dataIds) :
             ctx' = SaveDatasetsOp(ctx, refs, elements, rewrite, order)
       /\ asked' = [asked EXCEPT !.refs = @ \cup Range(refs),
                                 !.plain = @ /\ ~elements.given /\ rewrite = "None"
                                             /\ loop.raised = ""]
    /\ sortOut' = NoSortOut
    /\ UNCHANGED <<backend, finishOut, nFinish, datastore, dataIdsOut, dimDataOut, sortLoop>>
    /\ UNCHANGED mgrVars

\* saveDatasets(refs, elements=elements, rewrite=rewrite)
SaveDatasets(refs, elements, rewrite) ==
    /\ SaveDatasetsCall(refs, elements, rewrite)
    /\ UNCHANGED <<datasetsOut, datastoreCalls>>

\* saveDatasets(refs, elements=elements, rewrite=rewrite) of a session whose
\* datastore and rewrite calls are recorded.
SaveDatasetsRecorded(refs, elements, rewrite) ==
    /\ SaveDatasetsCall(refs, elements, rewrite)
    /\ LET loop == ExportRefs(ctx, SortRefs(refs), rewrite, {}, <<>>) IN
       /\ datasetsOut' = [called |-> TRUE, refs |-> refs, elements |-> elements,
                          rewrite |-> rewrite, raised |-> loop.raised, before |-> ctx,
                          after |-> ctx', calls |-> loop.calls]
       /\ datastoreCalls' = datastoreCalls \o loop.calls

\* saveDataIds(dataIds, elements=elements)
SaveDataIds(dataIds, elements) ==
    /\ ctx' = SaveDataIdsOp(ctx, dataIds, elements)
    /\ dataIdsOut' = [called |-> TRUE, dataIds |-> dataIds, elements |-> elements,
                      before |-> ctx.records,
                      after |-> SaveDataIdsOp(ctx, dataIds, elements).records]
    /\ asked' = [asked EXCEPT !.plain = FALSE]
    /\ sortOut' = NoSortOut
    /\ UNCHANGED <<backend, finishOut, nFinish, datastore, dimDataOut, datasetsOut, datastoreCalls>>
    /\ UNCHANGED sortLoop
    /\ UNCHANGED mgrVars

\* saveDimensionData(element, records)
SaveDimensionData(element, records) ==
    /\ LET out == SaveDimensionDataOp(ctx, element, records) IN
       /\ ctx' = out.ctx
       /\ dimDataOut' = [called |-> TRUE, element |-> element, records |-> records,
                         raised |-> out.raised, before |-> ctx.records,
                         after |-> out.ctx.records]
    /\ asked' = [asked EXCEPT !.plain = FALSE]
    /\ sortOut' = NoSortOut
    /\ UNCHANGED <<backend, finishOut, nFinish, datastore, dataIdsOut, datasetsOut,
                   datastoreCalls, sortLoop>>
    /\ UNCHANGED mgrVars

\* RepoExportContext(registry, datastore, backend): a new session, with its
\* own backend.
Open(ds) ==
    /\ ctx' = EmptyContext
    /\ datastore' = ds
    /\ backend' = <<>>
    /\ asked' = NoAsked
    /\ sortOut' = NoSortOut
    /\ finishOut' = NoFinishOut
    /\ dataIdsOut' = NoDataIdsOut
    /\ dimDataOut' = NoDimDataOut
    /\ datasetsOut' = NoDatasetsOut
    /\ datastoreCalls' = <<>>
    /\ sortLoop' = NoSortLoop
    /\ nFinish' = 0
    /\ UNCHANGED mgrVars

\* _computeSortedCollections(), begun: the first loop has filled `chains`
\* and `result`, and result.sort() has run.
BeginSort ==
    /\ sortLoop.pc = "idle"
    /\ sortLoop' = [pc |-> "loop", chains |-> ChainsOf(ctx.collections),
                    result |-> NonChainNames(ctx.collections), passes |-> 0,
                    pending |-> Len(ChainsOf(ctx.collections))]
    /\ UNCHANGED <<ctx, backend, sortOut, finishOut, nFinish, datastore, asked, dataIdsOut,
                   dimDataOut, datasetsOut, datastoreCalls>>
    /\ UNCHANGED mgrVars

\* _computeSortedCollections(): the test of `while chains` and, when it
\* holds, one pass of the loop body.
SortPass ==
    /\ sortLoop.pc = "loop"
    /\ sortLoop.passes <= MaxPasses
    /\ sortLoop' =
          IF sortLoop.chains = <<>> THEN [sortLoop EXCEPT !.pc = "returned"]
          ELSE LET unblocked == Unblocked(sortLoop.chains) IN
               IF unblocked = {}
               THEN [sortLoop EXCEPT !.pc = "raised", !.passes = @ + 1]
               ELSE [sortLoop EXCEPT !.chains = DeleteChains(@, unblocked),
                                     !.result = @ \o SortedNames(unblocked),
                                     !.passes = @ + 1]
    /\ UNCHANGED <<ctx, backend, sortOut, finishOut, nFinish, datastore, asked, dataIdsOut,
                   dimDataOut, datasetsOut, datastoreCalls>>
    /\ UNCHANGED mgrVars

\* a call of _computeSortedCollections()
ComputeSorted ==
    /\ sortOut' = [called |-> TRUE, input |-> ctx.collections,
                   result |-> ComputeSortedCollections(ctx.collections)]
    /\ UNCHANGED <<ctx, backend, finishOut, nFinish, datastore, asked, dataIdsOut, dimDataOut, datasetsOut, datastoreCalls>>
    /\ UNCHANGED sortLoop
    /\ UNCHANGED mgrVars

\* _finish()
Finish ==
    /\ LET out == FinishOp(ctx) IN
       /\ ctx' = out.ctx
       /\ backend' = backend \o out.calls
       /\ finishOut' = [called |-> TRUE, raised |-> out.raised, userSaved |-> out.userSaved,
                        sortInput |-> out.sortInput, sorted |-> out.sorted,
                        calls |-> out.calls, asked |-> asked]
    /\ nFinish' = nFinish + 1
    /\ sortOut' = NoSortOut
    /\ UNCHANGED <<datastore, asked, dataIdsOut, dimDataOut, datasetsOut, datastoreCalls>>
    /\ UNCHANGED sortLoop
    /\ UNCHANGED mgrVars

Init ==
    /\ directory = {}
    /\ tables = {}
    /\ nextId = 1
    /\ byName = [p \in Procs |-> EmptyDict]
    /\ byId = [p \in Procs |-> EmptyDict]
    /\ pc = [p \in Procs |-> "idle"]
    /\ cur = [p \in Procs |-> NoFrame]
    /\ frames = [p \in Procs |-> <<>>]
    /\ ret = [p \in Procs |-> NoReturn]
    /\ callLog = <<>>
    /\ cascaded = {}
    /\ datasetRows = {}
    /\ nextDatasetId = 1
    /\ getCur = [p \in Procs |-> NoDatasetRow]
    /\ getOut = NoGetOut
    /\ findOut = NoFindOut
    /\ refreshOut = NoRefreshOut
    /\ refreshLoop = NoRefreshLoop
    /\ addOut = NoAddOut
    /\ ctx = EmptyContext
    /\ backend = <<>>
    /\ sortOut = NoSortOut
    /\ finishOut = NoFinishOut
    /\ nFinish = 0
    /\ datastore = "file"
    /\ asked = NoAsked
    /\ dataIdsOut = NoDataIdsOut
    /\ dimDataOut = NoDimDataOut
    /\ datasetsOut = NoDatasetsOut
    /\ datastoreCalls = <<>>
    /\ sortLoop = NoSortLoop

-----------------------------------------------------------------------------
(* Export sessions that export some datasets, save collections, and then   *)
(* order them or finish.                                                   *)

MaxEdges == 2

CollectionNames == {"r1", "t1", "c1", "c2", "c3"}

ChildNames == {"r1", "c1", "c2", "c3"}

\* Lists of distinct names, at most MaxEdges long: what a chain may list.
ChildLists ==
    UNION {{l \in [1..n -> ChildNames] : \A i, j \in 1..n : i # j => l[i] # l[j]} :
            n \in 0..MaxEdges}

RECURSIVE SumLen(_)
SumLen(seq) == IF seq = <<>> THEN 0 ELSE Len(Head(seq)) + SumLen(Tail(seq))

EdgeCount(colls) == SumLen([i \in 1..Len(colls) |-> colls[i].value.children])

\* The ref lists of the sessions' saveDatasets call.
SessionRefLists ==
    { <<DatasetRef(1, "raw", <<1, 2>>, "r1"), DatasetRef(2, "raw", <<1, 1>>, "r1"),
        DatasetRef(3, "bias", <<1>>, "r2")>>,
      <<DatasetRef(2, "raw", <<1, 1>>, "r1"), DatasetRef(2, "raw", <<1, 1>>, "r1")>> }

NextCollections ==
    \/ \E refs \in SessionRefLists :
        /\ ctx = EmptyContext
        /\ nFinish = 0
        /\ SaveDatasets(refs, ElementsNone, "None")
    \/ \E name \in CollectionNames \ OKeySet(ctx.collections) :
        \E children \in (IF CollectionType(name) = "CHAINED" THEN ChildLists ELSE {<<>>}) :
            /\ nFinish = 0
            /\ Len(ctx.collections) < MaxSaved
            /\ EdgeCount(ctx.collections) + Len(children) <= MaxEdges
            /\ SaveCollection(name, children)
    \/ (nFinish = 0 /\ ~sortOut.called /\ ComputeSorted)
    \/ (nFinish = 0 /\ Finish)

SpecCollections == Init /\ [][NextCollections]_vars

-----------------------------------------------------------------------------
(* Claims about _computeSortedCollections and _finish, checked under       *)
(* SpecCollections                                                         *)

SavedChains(colls) == {colls[i].key : i \in {j \in 1..Len(colls) : colls[j].value.type = "CHAINED"}}

\* The saved chains that saved chain n lists as children.
ChainChildren(colls, n) == Range(OGet(colls, n).children) \cap SavedChains(colls)

RECURSIVE ReachableChains(_, _, _)
ReachableChains(colls, S, k) ==
    IF k = 0 THEN S
    ELSE ReachableChains(colls, S \cup UNION {ChainChildren(colls, n) : n \in S}, k - 1)

\* Saved chain n reaches itself through children that are saved chains.
OnCycle(colls, n) ==
    n \in ReachableChains(colls, ChainChildren(colls, n), Cardinality(SavedChains(colls)))

HasCycle(colls) == \E n \in SavedChains(colls) : OnCycle(colls, n)

Before(names, a, b) == \E i, j \in 1..Len(names) : i < j /\ names[i] = a /\ names[j] = b

ChildrenBeforeParents(colls, names) ==
    \A i \in 1..Len(colls) :
        colls[i].value.type = "CHAINED" =>
            \A child \in Range(colls[i].value.children) \cap OKeySet(colls) :
                Before(names, child, colls[i].key)

\* C5: for an acyclic set of saved collections, _computeSortedCollections
\* returns a list in which every CHAINED collection comes strictly after each
\* of its children that is in the saved set (on a direct call and on the
\* call _finish makes).
C5_ChildrenBeforeParents ==
    /\ (sortOut.called /\ ~HasCycle(sortOut.input)) =>
            /\ ~sortOut.result.raised
            /\ ChildrenBeforeParents(sortOut.input, sortOut.result.names)
    /\ (finishOut.called /\ ~HasCycle(finishOut.sortInput)) =>
            /\ ~finishOut.sorted.raised
            /\ ChildrenBeforeParents(finishOut.sortInput, finishOut.sorted.names)

\* A chain saved before its child chain, which was saved before its own child chain.
C5_Witness ==
    /\ sortOut.called
    /\ ~sortOut.result.raised
    /\ \E i, j, k \in 1..Len(sortOut.input) :
          /\ i < j /\ j < k
          /\ sortOut.input[j].key \in Range(sortOut.input[i].value.children)
          /\ sortOut.input[k].key \in Range(sortOut.input[j].value.children)
          /\ sortOut.input[k].value.type = "CHAINED"

\* C6: _computeSortedCollections raises the cycle error exactly when the
\* saved CHAINED collections have a dependency cycle among themselves (a
\* chain listing itself included); and a _finish whose ordering raises has
\* handed the backend nothing but dimension records: no collection, no
\* dataset, no association, no finish().
C6_CycleRaises ==
    /\ sortOut.called => (sortOut.result.raised <=> HasCycle(sortOut.input))
    /\ finishOut.called =>
            /\ finishOut.raised <=> HasCycle(finishOut.sortInput)
            /\ finishOut.raised =>
                 /\ \A i \in 1..Len(finishOut.calls) :
                        finishOut.calls[i].op = "saveDimensionData"
                 /\ \A i \in 1..Len(backend) :
                        backend[i].op = "saveDimensionData"

C6_Witness ==
    /\ finishOut.called
    /\ finishOut.raised
    /\ ctx.dataset_ids # {}
    /\ backend # <<>>
    /\ \E n \in SavedChains(finishOut.sortInput) :
          n \in Range(OGet(finishOut.sortInput, n).children)

\* C7: the cycle error names the offending collections: every saved chain
\* that lies on a cycle is among the names the error gives.
C7_CycleErrorNamesChains ==
    (sortOut.called /\ sortOut.result.raised) =>
        /\ sortOut.result.involving # {}
        /\ {n \in SavedChains(sortOut.input) : OnCycle(sortOut.input, n)}
              \subseteq sortOut.result.involving

\* The saved records in a canonical order: entries by name, each chain's
\* children sorted.
Canonical(colls) ==
    LET names == SortStringSet(OKeySet(colls)) IN
    [i \in 1..Len(names) |->
        [key |-> names[i],
         value |-> [OGet(colls, names[i]) EXCEPT !.children = SortStrings(@)]]]

\* C8: the list _computeSortedCollections returns is the one it returns for
\* the same records saved in canonical order with each chain's children in
\* canonical order; so any two contexts holding the same records, in whatever
\* insertion order and children order, get identical lists (every such order
\* is reachable here).
C8_OrderIndependent ==
    /\ sortOut.called =>
            sortOut.result = ComputeSortedCollections(Canonical(sortOut.input))
    /\ finishOut.called =>
            finishOut.sorted = ComputeSortedCollections(Canonical(finishOut.sortInput))

\* Two non-chains and a chain with two children, none of them saved in order.
C8_Witness ==
    /\ sortOut.called
    /\ ~sortOut.result.raised
    /\ \E i, j \in 1..Len(sortOut.input) :
          /\ i < j
          /\ sortOut.input[i].value.type # "CHAINED"
          /\ sortOut.input[j].value.type # "CHAINED"
          /\ StrRank(sortOut.input[j].key) < StrRank(sortOut.input[i].key)
    /\ \E i \in 1..Len(sortOut.input) :
          /\ Len(sortOut.input[i].value.children) = 2
          /\ sortOut.input[i].value.children # SortStrings(sortOut.input[i].value.children)

PhaseRank(op) ==
    CASE op = "saveDimensionData" -> 1
      [] op = "saveCollection" -> 2
      [] op = "saveDatasets" -> 3
      [] op = "saveDatasetAssociations" -> 4
      [] op = "finish" -> 5

PhasesInOrder(calls) ==
    \A i, j \in 1..Len(calls) : i < j => PhaseRank(calls[i].op) <= PhaseRank(calls[j].op)

FinishCallCount(calls) == Cardinality({i \in 1..Len(calls) : calls[i].op = "finish"})

\* C9 as stated: in every _finish the calls come in phase order and
\* backend.finish() is called exactly once, as the last call.
C9_FinishAlwaysCalled ==
    finishOut.called =>
        /\ PhasesInOrder(finishOut.calls)
        /\ FinishCallCount(finishOut.calls) = 1
        /\ finishOut.calls[Len(finishOut.calls)].op = "finish"

\* C9 amended: in every _finish the backend calls come in phase order
\* (dimension data, collections, datasets, associations); a _finish that
\* returns calls backend.finish() exactly once, as its last call; a _finish
\* that raises the cycle error does not call backend.finish().
C9_FinishPhases ==
    finishOut.called =>
        /\ PhasesInOrder(finishOut.calls)
        /\ ~finishOut.raised =>
             /\ FinishCallCount(finishOut.calls) = 1
             /\ finishOut.calls[Len(finishOut.calls)].op = "finish"
        /\ finishOut.raised => FinishCallCount(finishOut.calls) = 0

C9_Witness ==
    /\ finishOut.called
    /\ ~finishOut.raised
    /\ \A op \in {"saveDimensionData", "saveCollection", "saveDatasets",
                  "saveDatasetAssociations", "finish"} :
          \E i \in 1..Len(finishOut.calls) : finishOut.calls[i].op = op

\* C10: every saveDatasets call of a _finish is for a run that an earlier
\* saveCollection call of the same _finish handed over as a RUN record, and
\* the datasets in the call are owned by that run, whether or not the caller
\* saved the run.
C10_RunSavedBeforeDatasets ==
    finishOut.called =>
        \A j \in 1..Len(finishOut.calls) :
            finishOut.calls[j].op = "saveDatasets" =>
                /\ \E i \in 1..(j - 1) :
                      /\ finishOut.calls[i].op = "saveCollection"
                      /\ finishOut.calls[i].args[1].name = finishOut.calls[j].args[2]
                      /\ finishOut.calls[i].args[1].type = "RUN"
                /\ \A k \in 1..Len(finishOut.calls[j].args[3]) :
                      \A r \in 1..Len(finishOut.calls[j].args[3][k].refs) :
                          finishOut.calls[j].args[3][k].refs[r].run = finishOut.calls[j].args[2]

C10_Witness ==
    /\ finishOut.called
    /\ \E j \in 1..Len(finishOut.calls) :
          /\ finishOut.calls[j].op = "saveDatasets"
          /\ finishOut.calls[j].args[2] \notin finishOut.userSaved

-----------------------------------------------------------------------------
(* Export sessions over one unchanged catalog: any datastore, collections  *)
(* and refs passed in any order and any grouping, data IDs saved directly, *)
(* and calls made after _finish.                                           *)

MaxFinish == 2

\* The collections callers pass to saveCollection.
ExportNames == {"t1", "k1", "c1"}

\* The children the catalog lists for its chains.
CatalogChildren(name) == IF name = "c1" THEN <<"t1", "r1">> ELSE <<>>

\* The ref lists callers pass to saveDatasets: one or two refs of the catalog.
ExportRefLists ==
    {<<r>> : r \in CatalogRefs} \cup {<<r1, r2>> : r1 \in CatalogRefs, r2 \in CatalogRefs}

\* The data IDs and elements callers pass to saveDataIds.
ExportDataIds == {<<1, 1>>, <<1, 2>>}

ExportElements == {ElementsNone, ElementsOf({"visit"}), ElementsOf({"instrument", "visit"})}

NextExport ==
    \/ \E ds \in Datastores : Open(ds)
    \/ \E name \in ExportNames : SaveCollection(name, CatalogChildren(name))
    \/ \E refs \in ExportRefLists : (nFinish = 0 /\ SaveDatasets(refs, ElementsNone, "None"))
    \/ \E d \in ExportDataIds, e \in ExportElements :
            (nFinish = 0 /\ ~dataIdsOut.called /\ SaveDataIds(<<d>>, e))
    \/ (nFinish < MaxFinish /\ Finish)

SpecExport == Init /\ [][NextExport]_vars

-----------------------------------------------------------------------------
(* Claims about export sessions, checked under SpecExport *)

RECURSIVE SaveCollections(_, _)
SaveCollections(c, names) ==
    IF names = <<>> THEN c
    ELSE SaveCollections(SaveCollectionOp(c, Head(names), CatalogChildren(Head(names))),
                         Tail(names))

\* The context of the session that is given the names and refs of `a` in one
\* fixed way: the names in sorted order, then all refs in one saveDatasets call.
CanonicalSession(a) ==
    LET c == SaveCollections(EmptyContext, SortStringSet(a.names))
        refs == SetToSeq(a.refs) IN
    SaveDatasetsOp(c, refs, ElementsNone, "None",
                   SetToSeq(ExportRefs(c, SortRefs(refs), "None", {}, <<>>).dataIds))

\* The dimension-record store as a mapping: (element, data ID, record) triples.
RecordsAsMap(records) ==
    UNION {{<<records[i].key, records[i].value[j].key, records[i].value[j].value>> :
                j \in 1..Len(records[i].value)} : i \in 1..Len(records)}

\* C11: a _finish of a session that was only given saveCollection names and
\* saveDatasets refs makes the backend calls that the session given the same
\* names and the same refs in one fixed order makes; so two sessions given
\* the same names and refs in different call orders and ref orders make the
\* same sequence of calls (every order and grouping is reachable here).
C11_ExportDeterminism ==
    (finishOut.called /\ finishOut.asked.plain) =>
        finishOut.calls = FinishOp(CanonicalSession(finishOut.asked)).calls

\* C12: a session that only called saveDatasets, in any number of calls with
\* overlapping and repeated refs, has the seen dataset ids, the dimension
\* records and the sorted FileDataset lists per (dataset type, run) of the
\* session that called saveDatasets once with the union of the refs, and its
\* _finish makes the same backend calls.
C12_TwoCallsAsUnion ==
    (asked.plain /\ asked.names = {}) =>
        LET union == CanonicalSession(asked) IN
        /\ ctx.dataset_ids = union.dataset_ids
        /\ RecordsAsMap(ctx.records) = RecordsAsMap(union.records)
        /\ DatasetCalls(ctx) = DatasetCalls(union)
        /\ finishOut.called => finishOut.calls = FinishOp(union).calls

\* The saveDatasetAssociations calls among `calls`.
AssociationCallsOf(calls) ==
    SelectSeq(calls, LAMBDA call : call.op = "saveDatasetAssociations")

\* The associations handed over by `calls`.
EmittedAssociations(calls) ==
    UNION {Range(AssociationCallsOf(calls)[i].args[3]) : i \in 1..Len(AssociationCallsOf(calls))}

\* C13: every saveDatasetAssociations call of a _finish is for a collection
\* whose name was passed to saveCollection in the session, and hands over
\* only associations into that collection; so a TAGGED collection that was
\* never saved gets no call and no emitted association refers to it, even
\* when exported datasets are associated with it.
C13_AssociationScoping ==
    finishOut.called =>
        /\ \A i \in 1..Len(AssociationCallsOf(finishOut.calls)) :
              LET call == AssociationCallsOf(finishOut.calls)[i] IN
              /\ call.args[1] \in finishOut.asked.names
              /\ \A a \in Range(call.args[3]) : a.collection = call.args[1]
        /\ \A a \in EmittedAssociations(finishOut.calls) :
              a.collection \in finishOut.asked.names

\* An exported dataset is tagged in t1, t1 was never saved, and the _finish
\* did hand over associations (of another collection).
C13_Witness ==
    /\ finishOut.called
    /\ "t1" \notin finishOut.asked.names
    /\ \E a \in CatalogAssociations : a.collection = "t1" /\ a.ref.id \in ctx.dataset_ids
    /\ EmittedAssociations(finishOut.calls) # {}

\* The associations of the catalog that a _finish is to hand over: those of
\* an exported dataset with a saved TAGGED collection, or with a saved
\* CALIBRATION collection when the dataset type is a calibration.
ExpectedAssociations(names, ids) ==
    {a \in CatalogAssociations :
        /\ a.ref.id \in ids
        /\ a.collection \in names
        /\ \/ CollectionType(a.collection) = "TAGGED"
           \/ CollectionType(a.collection) = "CALIBRATION" /\ IsCalibration(a.ref.datasetType)}

\* C14: the associations a _finish hands over are exactly the catalog's
\* associations of exported datasets with saved collections: none refers to
\* a dataset outside the session's exported ids, and an association of a
\* saved collection with a dataset that was not exported is left out without
\* making _finish fail (it goes on to call finish()).
C14_AssociationsOfExported ==
    finishOut.called =>
        /\ \A a \in EmittedAssociations(finishOut.calls) : a.ref.id \in ctx.dataset_ids
        /\ EmittedAssociations(finishOut.calls)
              = ExpectedAssociations(finishOut.asked.names, ctx.dataset_ids)
        /\ ~finishOut.raised
        /\ finishOut.calls[Len(finishOut.calls)].op = "finish"

\* t1 was saved; one of its datasets was exported and another one was not.
C14_Witness ==
    /\ finishOut.called
    /\ "t1" \in finishOut.asked.names
    /\ \E a \in CatalogAssociations : a.collection = "t1" /\ a.ref.id \notin ctx.dataset_ids
    /\ \E a \in EmittedAssociations(finishOut.calls) : a.collection = "t1"

\* C15: once _finish has run the session is finished: the backend of a
\* session never receives a second finish().
C15_FinishedIsTerminal == FinishCallCount(backend) <= 1

\* The keys (element, data ID) of a dimension-record store.
RecordKeys(records) ==
    UNION {{<<records[i].key, records[i].value[j].key>> : j \in 1..Len(records[i].value)} :
                i \in 1..Len(records)}

\* The elements saveDataIds(elements=...) is to take records of.
WantedElements(elements) ==
    {e \in (IF elements.given THEN elements.names ELSE Range(ElementOrder)) :
        ElementIsExported(e)}

\* C16: after saveDataIds(dataIds, elements=E) the store holds, for every
\* data ID, the record of every table-backed non-view element of E (of all
\* elements when E is omitted) that occurs in the expanded data ID, and the
\* call added no record of another element.
C16_SelectedElementsStored ==
    dataIdsOut.called =>
        /\ \A d \in Range(dataIdsOut.dataIds) :
              \A r \in Range(ExpandedRecords(d)) :
                  r.definition \in WantedElements(dataIdsOut.elements) =>
                      <<r.definition, r.dataId>> \in RecordKeys(dataIdsOut.after)
        /\ \A k \in RecordKeys(dataIdsOut.after) \ RecordKeys(dataIdsOut.before) :
              k[1] \in WantedElements(dataIdsOut.elements)

SpecMgr == Init /\ [][NextMgr]_vars

-----------------------------------------------------------------------------
(* Processes that register dataset types, insert and remove datasets, and   *)
(* look datasets and dataset types up                                       *)

MaxDatasets == 1

\* As many register() calls as there are processes.
MaxRegistered == Cardinality(Procs)

\* The dataset types these processes register.
RefInputs == {DatasetType("exp", D1, "Image")}

RefRuns == {"r1"}

NextRefs ==
    \/ \E p \in Procs, dt \in RefInputs :
            (Len(callLog) + Cardinality({q \in Procs : pc[q] \in {"sync", "ensure"}})
                    < MaxRegistered
                /\ Register(p, dt))
    \/ \E p \in Procs : Sync(p)
    \/ \E p \in Procs : Ensure(p)
    \/ \E p \in Procs : Refresh(p)
    \/ \E p \in Procs, dt \in RefInputs, run \in RefRuns :
            (nextDatasetId <= MaxDatasets /\ InsertDataset(p, dt.name, run))
    \/ \E run \in RefRuns : PruneCollection(run)
    \/ \E dt \in RefInputs : RemoveDatasetType(dt.name)
    \/ \E p \in Procs, id \in 1..MaxDatasets : GetRow(p, id)
    \/ \E p \in Procs : GetRef(p)
    \/ \E p \in Procs, dt \in RefInputs : FindCall(p, dt.name)

SpecRefs == Init /\ [][NextRefs]_vars

-----------------------------------------------------------------------------
(* Claims about the manager, checked under SpecMgr *)

Calls == 1..Len(callLog)

ComponentNames(dt) ==
    {MakeComponentDatasetType(dt, StorageClassComponents(dt.storageClass)[i]).name :
        i \in 1..Len(StorageClassComponents(dt.storageClass))}

\* C1: when one manager has returned from register(T) twice for the same
\* definition T, the second call returned inserted=False, both calls
\* returned a storage with the same surrogate id, and the directory holds
\* exactly one row named T.name.
C1_IdempotentRegistration ==
    \A i, j \in Calls :
        ( /\ i < j
          /\ callLog[i].proc = callLog[j].proc
          /\ callLog[i].datasetType = callLog[j].datasetType
          /\ callLog[i].ok /\ callLog[j].ok )
        => /\ callLog[j].inserted = FALSE
           /\ callLog[j].id = callLog[i].id
           /\ Cardinality(RowsNamed(directory, callLog[j].datasetType.name)) = 1

C1_Witness ==
    \E i, j \in Calls :
        /\ i < j
        /\ callLog[i].proc = callLog[j].proc
        /\ callLog[i].datasetType = callLog[j].datasetType
        /\ callLog[i].ok /\ callLog[i].inserted
        /\ callLog[j].ok

\* The register() call that just ended in process p raised, in a manager
\* that had before returned from register() for the same name with another
\* definition.
ConflictingCallEnded(p) ==
    /\ Len(callLog') = Len(callLog) + 1
    /\ LET e == callLog'[Len(callLog')] IN
       /\ e.proc = p
       /\ \E i \in Calls :
             /\ callLog[i].proc = p
             /\ callLog[i].ok
             /\ callLog[i].datasetType.name = e.datasetType.name
             /\ callLog[i].datasetType # e.datasetType

\* C2: once register(T) has succeeded in a manager, a register(T') in that
\* manager with the same name and another definition raises the
\* conflicting-definition error; the failing call leaves the directory,
\* both caches and the id counter as they were; and find(T.name) goes on
\* returning T's storage with T's surrogate id.
C2_ConflictLeavesRegistration ==
    /\ [](\A i, j \in Calls :
            ( /\ i < j
              /\ callLog[i].proc = callLog[j].proc
              /\ callLog[i].ok
              /\ callLog[i].datasetType.name = callLog[j].datasetType.name
              /\ callLog[i].datasetType # callLog[j].datasetType )
            => ~callLog[j].ok)
    /\ [](\A i \in Calls :
            callLog[i].ok =>
                /\ Find(callLog[i].proc, callLog[i].datasetType.name).datasetType
                      = callLog[i].datasetType
                /\ Find(callLog[i].proc, callLog[i].datasetType.name).dataset_type_id
                      = callLog[i].id)
    /\ [][\A p \in Procs :
            ConflictingCallEnded(p) =>
                /\ ~callLog'[Len(callLog')].ok
                /\ directory' = directory /\ tables' = tables /\ nextId' = nextId
                /\ byName' = byName /\ byId' = byId]_vars

C2_Witness ==
    \E i, j \in Calls :
        /\ i < j
        /\ callLog[i].proc = callLog[j].proc
        /\ callLog[i].ok
        /\ callLog[i].datasetType.name = callLog[j].datasetType.name
        /\ callLog[i].datasetType # callLog[j].datasetType
        /\ ~callLog[j].ok

\* Every register() call made so far, finished or not, was for definition dt.
OnlyRegistered(dt) ==
    /\ \A i \in Calls : callLog[i].datasetType = dt
    /\ \A p \in Procs : pc[p] # "idle" => ret[p].datasetType = dt

AllIdle == \A p \in Procs : pc[p] = "idle"

\* C3: when the processes have only ever called register(T) for one
\* definition T, in any interleaving (refreshes included): at most one call
\* returns inserted=True, and exactly one once all calls have returned; the
\* directory never holds more than one row named T.name; and every cache
\* that has T.name maps it to the surrogate id of that row.
C3_RacingRegistration ==
    \A dt \in RegisterInputs :
        OnlyRegistered(dt) =>
            LET won == {i \in Calls : callLog[i].ok /\ callLog[i].inserted} IN
            /\ Cardinality(won) <= 1
            /\ (AllIdle /\ callLog # <<>>) =>
                    /\ Cardinality(won) = 1
                    /\ \A i \in Calls : callLog[i].ok
                    /\ \A i \in Calls : Find(callLog[i].proc, dt.name) # NoStorage
            /\ Cardinality(RowsNamed(directory, dt.name)) <= 1
            /\ \A p \in Procs :
                    Find(p, dt.name) # NoStorage =>
                        \E r \in directory :
                            /\ r.name = dt.name
                            /\ r.id = Find(p, dt.name).dataset_type_id
                            /\ RowsNamed(directory, dt.name) = {r}

C3_Witness ==
    \E dt \in RegisterInputs :
        /\ OnlyRegistered(dt)
        /\ AllIdle
        /\ \E i, j \in Calls :
              /\ callLog[i].proc # callLog[j].proc
              /\ callLog[i].inserted /\ ~callLog[j].inserted
        /\ \A p \in Procs : Find(p, dt.name) # NoStorage

\* C4: whenever register(T) has returned successfully for a composite T in
\* a manager, every declared component of T is retrievable by find() in
\* that manager, whichever process inserted T's row.
C4_CompositeCascade ==
    \A i \in Calls :
        (callLog[i].ok /\ IsComposite(callLog[i].datasetType)) =>
            \A n \in ComponentNames(callLog[i].datasetType) :
                Find(callLog[i].proc, n) # NoStorage

-----------------------------------------------------------------------------
(* Claims about getDatasetRef and find, checked under SpecRefs *)

RowFound == getOut.row # NoDatasetRow

\* C17: a getDatasetRef(id) call makes no refresh when there is no dataset
\* row with that id (it returns absent) or when the row's dataset-type id is
\* in the id->storage cache, exactly one refresh when the type id is not in
\* the cache, and never more than one.
C17_AtMostOneRefresh ==
    getOut.called =>
        /\ getOut.refreshes \in {0, 1}
        /\ ~RowFound => (getOut.result = "absent" /\ getOut.refreshes = 0)
        /\ getOut.result = "absent" => ~RowFound
        /\ (RowFound /\ getOut.cachedBefore) => getOut.refreshes = 0
        /\ (RowFound /\ ~getOut.cachedBefore) => getOut.refreshes = 1

C17_Witness ==
    /\ getOut.called
    /\ RowFound
    /\ ~getOut.cachedBefore
    /\ getOut.refreshes = 1

C19_MissAfterRefreshAsserts ==
    (getOut.called /\ RowFound /\ ~getOut.cachedBefore /\ getOut.typeRows = {})
    => /\ getOut.result = "AssertionError"
       /\ getOut.refreshes = 1
       /\ getOut.ref = NoDatasetRef

C19_Witness ==
    /\ getOut.called
    /\ RowFound
    /\ ~getOut.cachedBefore
    /\ getOut.typeRows = {}

\* The names of the dataset types that are registered.
RefNames == {dt.name : dt \in RefInputs}

\* C20: find(name) returns the storage the manager's name->storage cache
\* holds and absent when the cache has none, whatever the directory holds; a
\* find() call changes neither the database nor a cache; and a name comes
\* into a manager's cache only by a step of that manager's own refresh(),
\* register() or getDatasetRef() (which refreshes).
C20_FindReadsCacheOnly ==
    /\ [](findOut.called => (findOut.result = NoStorage <=> ~findOut.cached))
    /\ [][findOut' # findOut =>
            UNCHANGED <<directory, tables, nextId, datasetRows, nextDatasetId, byName, byId>>]_vars
    /\ [][\A p \in Procs : \A n \in RefNames :
            (n \notin DOMAIN byName[p] /\ n \in DOMAIN byName'[p]) =>
                (Refresh(p) \/ Ensure(p) \/ GetRef(p))]_vars

\* The directory has the name's row, registered by another process, and
\* find() in a manager that has not refreshed since reports it absent.
C20_Witness ==
    /\ findOut.called
    /\ findOut.inDirectory
    /\ ~findOut.cached
    /\ findOut.result = NoStorage
    /\ \E i \in 1..Len(callLog) : callLog[i].inserted /\ callLog[i].proc # findOut.proc

-----------------------------------------------------------------------------
(* Claims about refresh() and the dynamic tables                            *)

\* The caches of process p hold exactly the rows of the directory: the
\* names, the ids, and under each the storage of that row.
Mirrors(p) ==
    /\ DOMAIN byName[p] = {r.name : r \in directory}
    /\ DOMAIN byId[p] = {r.id : r \in directory}
    /\ \A r \in directory :
          /\ byName[p][r.name].dataset_type_id = r.id
          /\ byName[p][r.name].datasetType =
                DatasetType(r.name, Decode(r.dimensions_encoded), r.storage_class)
          /\ byId[p][r.id] = byName[p][r.name]

OpenedStorages ==
    {s \in UNION {{byName[p][n] : n \in DOMAIN byName[p]} : p \in Procs} : s.dynamic # NoTable}

\* C22: once every register() call has ended, the database has as many
\* dynamic tables as there are distinct dimension sets among the rows of the
\* directory, every registered type is held by some manager with a table
\* that exists, and two storages (of one manager or of two) use the same
\* table if and only if their dataset types have the same dimensions.
C22_OneTablePerDimensions ==
    AllIdle =>
        /\ Cardinality(tables) = Cardinality({r.dimensions_encoded : r \in directory})
        /\ \A r \in directory : \E s \in OpenedStorages :
              /\ s.dataset_type_id = r.id
              /\ s.datasetType.name = r.name
              /\ s.dynamic \in tables
        /\ \A s, t \in OpenedStorages :
              (s.dynamic = t.dynamic) <=> (s.datasetType.dimensions = t.datasetType.dimensions)

\* Two processes each inserted a dataset type, the two types have different
\* names and the same dimensions, and the database has one dynamic table.
C22_Witness ==
    /\ AllIdle
    /\ Cardinality(tables) = 1
    /\ \E i, j \in 1..Len(callLog) :
          /\ callLog[i].proc # callLog[j].proc
          /\ callLog[i].inserted /\ callLog[j].inserted
          /\ callLog[i].datasetType.name # callLog[j].datasetType.name
          /\ callLog[i].datasetType.dimensions = callLog[j].datasetType.dimensions
          /\ \E s, t \in OpenedStorages :
                /\ s.dataset_type_id = callLog[i].id
                /\ t.dataset_type_id = callLog[j].id
                /\ s.dynamic = t.dynamic

-----------------------------------------------------------------------------
(* Export sessions that save dimension records by every route: given       *)
(* records, data IDs, and datasets                                          *)

\* The (element, records) arguments of the saveDimensionData calls: a
\* record of a visit, a dict and a record for the same visit, a visit
\* record followed by a record of another element, an instrument record.
DimensionDataInputs ==
    { <<"visit", <<GivenRecord("visit", <<1, 1>>, "given")>> >>,
      <<"visit", <<DictRecord(<<1, 2>>, "dict"), GivenRecord("visit", <<1, 2>>, "given")>> >>,
      <<"visit", <<GivenRecord("visit", <<1, 2>>, "given"),
                   GivenRecord("instrument", <<1>>, "given")>> >>,
      <<"instrument", <<GivenRecord("instrument", <<1>>, "given")>> >> }

\* The refs of the saveDatasets calls: a raw of visit 1 and a bias.
RecordsRefs == {r \in CatalogRefs : r.id \in {2, 3}}

NextRecords ==
    \/ \E a \in DimensionDataInputs : (nFinish = 0 /\ SaveDimensionData(a[1], a[2]))
    \/ \E d \in ExportDataIds, e \in ExportElements :
            (nFinish = 0 /\ ~dataIdsOut.called /\ SaveDataIds(<<d>>, e))
    \/ \E r \in RecordsRefs : (nFinish = 0 /\ SaveDatasets(<<r>>, ElementsNone, "None"))
    \/ (nFinish = 0 /\ SaveCollection("t1", CatalogChildren("t1")))
    \/ (nFinish = 0 /\ Finish)

SpecRecords == Init /\ [][NextRecords]_vars

\* The record the store holds under (element, dataId).
StoredRecord(records, key) == OGet(OGet(records, key[1]), key[2])

\* The record a saveDimensionData(element, records) call saves first under
\* the data ID: the first member of `records` with that data ID.
FirstGiven(element, records, dataId) ==
    LET i == CHOOSE k \in 1..Len(records) :
                /\ records[k].dataId = dataId
                /\ \A j \in 1..(k - 1) : records[j].dataId # dataId IN
    DimensionRecord(element, dataId, records[i].detail)

\* C23: no step of a session replaces or removes a stored record: a key
\* (element, dataId) that has a record keeps that very record through every
\* saveDimensionData, saveDataIds, saveDatasets, saveCollection and _finish;
\* and the record a saveDimensionData call leaves under a key that was free
\* is the first one of its `records` with that data ID.
C23_FirstRecordWins ==
    /\ [][\A key \in RecordKeys(ctx.records) :
            /\ key \in RecordKeys(ctx'.records)
            /\ StoredRecord(ctx'.records, key) = StoredRecord(ctx.records, key)]_vars
    /\ [](dimDataOut.called =>
            \A key \in RecordKeys(dimDataOut.after) \ RecordKeys(dimDataOut.before) :
                /\ key[1] = dimDataOut.element
                /\ StoredRecord(dimDataOut.after, key) =
                        FirstGiven(dimDataOut.element, dimDataOut.records, key[2]))

\* A saveDimensionData call gave a record for a key that the catalog's
\* record already held, and a later _finish handed over the catalog's one;
\* the call also gave two records for one free key.
C23_Witness ==
    /\ dimDataOut.called
    /\ \E k \in 1..Len(dimDataOut.records) :
          /\ <<dimDataOut.element, dimDataOut.records[k].dataId>> \in RecordKeys(dimDataOut.before)
          /\ StoredRecord(ctx.records, <<dimDataOut.element, dimDataOut.records[k].dataId>>).detail
                = "catalog"
          /\ dimDataOut.records[k].detail # "catalog"
    /\ finishOut.called
    /\ \E key \in RecordKeys(ctx.records) : StoredRecord(ctx.records, key).detail = "given"

-----------------------------------------------------------------------------
(* Export sessions that save collections again, after the catalog's        *)
(* definition of a chain may have changed                                  *)

ResaveNames == {"r1", "c1", "c2"}

\* What the catalog may list for a collection at the time of a call.
ResaveChildren(name) ==
    IF CollectionType(name) = "CHAINED"
    THEN {<<>>, <<"r1">>, <<"c1">>, <<"c2">>, <<"c2", "r1">>}
    ELSE {<<>>}

NextResave ==
    \/ \E ds \in Datastores : Open(ds)
    \/ \E name \in ResaveNames : \E children \in ResaveChildren(name) :
            (nFinish = 0 /\ SaveCollection(name, children))
    \/ \E refs \in ExportRefLists : (nFinish = 0 /\ SaveDatasets(refs, ElementsNone, "None"))
    \/ (nFinish = 0 /\ Finish)

SpecResave == Init /\ [][NextResave]_vars

\* What a saveCollection(name) call that reads `children` from the catalog
\* leaves: one entry per name, the named entry as just read, the others as
\* they were, and the whole session as it was when the entry is the same.
SavedOnce(name, children) ==
    /\ OKeySet(ctx'.collections) = OKeySet(ctx.collections) \cup {name}
    /\ Len(ctx'.collections) = Cardinality(OKeySet(ctx'.collections))
    /\ OGet(ctx'.collections, name) = CollectionRecord(name, children)
    /\ \A n \in OKeySet(ctx.collections) \ {name} :
          OGet(ctx'.collections, n) = OGet(ctx.collections, n)
    /\ (/\ name \in OKeySet(ctx.collections)
        /\ OGet(ctx.collections, name) = CollectionRecord(name, children)) => ctx' = ctx

\* The saveCollection calls of a _finish that hand over the collection `name`.
HandedOver(calls, name) ==
    {i \in 1..Len(calls) : calls[i].op = "saveCollection" /\ calls[i].args[1].name = name}

SavedCollectionCalls(calls) == {i \in 1..Len(calls) : calls[i].op = "saveCollection"}

-----------------------------------------------------------------------------
(* addDatasetType() called by processes that also register and refresh     *)

\* The (name, dimensions, storageClass) arguments of addDatasetType().
AddInputs ==
    { <<"exp", D1, "Image">>,
      <<"exp", {"4thDimension"}, "Image">>,
      <<"exp", D1, "UnstorableType">>,
      <<"exp", {"4thDimension"}, "UnstorableType">>,
      <<"exp.image", {"instrument", "4thDimension"}, "Image">>,
      <<"exp.image", D2, "UnstorableType">> }

NextAdd ==
    \/ \E p \in Procs, a \in AddInputs : AddDatasetType(p, a[1], a[2], a[3])
    \/ \E p \in Procs : Sync(p)
    \/ \E p \in Procs : Ensure(p)
    \/ \E p \in Procs : Refresh(p)

SpecAdd == Init /\ [][NextAdd]_vars

\* An addDatasetType() step with invalid arguments.
InvalidAddStep ==
    \E p \in Procs, a \in AddInputs :
        /\ InvalidArguments(a[2], a[3])
        /\ AddDatasetType(p, a[1], a[2], a[3])

\* C25 as stated: an addDatasetType() call with a dimension name that is not
\* in the universe, or with a storage class name that is unknown, fails with
\* ValueError, and leaves the directory, the tables and the caches as they
\* were.
C25_InvalidArgumentsValueError ==
    /\ [][InvalidAddStep =>
            /\ directory' = directory
            /\ tables' = tables
            /\ byName' = byName
            /\ byId' = byId]_vars
    /\ [](addOut.called => addOut.result = "ValueError")

\* The part of C25 that holds: such a call registers nothing.
C25_InvalidArgumentsRegisterNothing ==
    [][InvalidAddStep =>
         /\ directory' = directory
         /\ tables' = tables
         /\ byName' = byName
         /\ byId' = byId
         /\ addOut'.result \in {"ValueError", "ConflictingDefinitionError"}
         /\ addOut'.result = "ConflictingDefinitionError" =>
               (addOut'.cachedBefore /\ addOut'.storageClass \notin KnownStorageClasses)]_vars

-----------------------------------------------------------------------------
(* Claims about the backend calls, checked under SpecRecords                *)

\* A step that is a call of one of the four save operations.
SaveStep ==
    \/ \E a \in DimensionDataInputs : SaveDimensionData(a[1], a[2])
    \/ \E d \in ExportDataIds, e \in ExportElements : SaveDataIds(<<d>>, e)
    \/ \E r \in RecordsRefs : SaveDatasets(<<r>>, ElementsNone, "None")
    \/ SaveCollection("t1", CatalogChildren("t1"))

\* C26: a saveCollection, saveDimensionData, saveDataIds or saveDatasets
\* call leaves the backend's calls as they were; the backend's calls change
\* only in a step that is a _finish, by the calls of that _finish.
C26_OnlyFinishCallsBackend ==
    /\ [][SaveStep => backend' = backend]_vars
    /\ [][backend' # backend =>
            /\ nFinish' = nFinish + 1
            /\ backend' = backend \o finishOut'.calls]_vars

\* The saveDimensionData calls among the calls of a _finish.
DimensionCalls(calls) == {i \in 1..Len(calls) : calls[i].op = "saveDimensionData"}

\* The elements an element depends on.
ElementDependencies(e) == IF e = "visit" THEN {"instrument"} ELSE {}

\* The records the store holds for an element.
StoredFor(records, e) == Range(OValues(OGet(records, e)))

\* C29: a _finish makes one saveDimensionData call for every element that
\* has a stored record and none for another element; the call for an
\* element comes after the call for each element it depends on; and the
\* records of a call are the element's stored records, each once, in
\* ascending order of data ID.
C29_DimensionDataCalls ==
    finishOut.called =>
        LET calls == finishOut.calls IN
        /\ \A e \in OKeySet(ctx.records) :
              Cardinality({i \in DimensionCalls(calls) : calls[i].args[1] = e}) = 1
        /\ \A i \in DimensionCalls(calls) :
              /\ calls[i].args[1] \in OKeySet(ctx.records)
              /\ calls[i].args[2] # <<>>
              /\ Range(calls[i].args[2]) = StoredFor(ctx.records, calls[i].args[1])
              /\ \A a, b \in 1..Len(calls[i].args[2]) :
                    a < b => DataIdKey(calls[i].args[2][a].dataId)
                                < DataIdKey(calls[i].args[2][b].dataId)
              /\ \A j \in DimensionCalls(calls) :
                    calls[j].args[1] \in ElementDependencies(calls[i].args[1]) => j < i

\* A _finish of a session whose store got a visit record before any
\* instrument record, and the record of a later visit before an earlier one.
C29_Witness ==
    /\ finishOut.called
    /\ Len(ctx.records) = 2
    /\ ctx.records[1].key = "visit"
    /\ Len(ctx.records[1].value) = 2
    /\ DataIdKey(ctx.records[1].value[2].key) < DataIdKey(ctx.records[1].value[1].key)
    /\ Cardinality(DimensionCalls(finishOut.calls)) = 2

\* All four save operations have been called, the context holds records,
\* datasets and collections, and the backend has received nothing.
C26_Witness ==
    /\ nFinish = 0
    /\ backend = <<>>
    /\ dimDataOut.called
    /\ dataIdsOut.called
    /\ asked.refs # {}
    /\ asked.names # {}
    /\ ctx.records # <<>>
    /\ ctx.datasets # <<>>
    /\ ctx.collections # <<>>

-----------------------------------------------------------------------------
(* Claims about export followed by import, checked under SpecExport         *)

\* The session was asked for datasets of one dataset type in one run, and
\* for no collection other than that run.
OneTypeOneRun(a) ==
    /\ a.refs # {}
    /\ \A r1, r2 \in a.refs : r1.datasetType = r2.datasetType /\ r1.run = r2.run
    /\ \A r \in a.refs : a.names \subseteq {r.run}

\* C27: the calls of a _finish of a session that exported datasets of one
\* dataset type in one RUN collection, replayed in order into an empty
\* catalog, meet no missing reference and leave exactly those datasets, each
\* with its data ID, dataset type and run, the run as a RUN collection, and
\* one dataset type row.
C27_RoundTrip ==
    (finishOut.called /\ ~finishOut.raised /\ OneTypeOneRun(finishOut.asked)) =>
        LET cat == Replay(EmptyCatalog, finishOut.calls) IN
        /\ cat.ok
        /\ cat.datasets = finishOut.asked.refs
        /\ Cardinality({d.id : d \in cat.datasets}) = Cardinality(finishOut.asked.refs)
        /\ Len(cat.datasetTypes) = 1
        /\ \A r \in finishOut.asked.refs :
              /\ cat.datasetTypes[1] = r.datasetType
              /\ {c.name : c \in cat.collections} = {r.run}
              /\ \A c \in cat.collections : c.type = "RUN"

\* A _finish of a session that was given two datasets of one type and run,
\* whose replay leaves two datasets.
C27_Witness ==
    /\ finishOut.called
    /\ ~finishOut.raised
    /\ OneTypeOneRun(finishOut.asked)
    /\ Cardinality(finishOut.asked.refs) = 2
    /\ Cardinality(Replay(EmptyCatalog, finishOut.calls).datasets) = 2

-----------------------------------------------------------------------------
(* Claims about the order _computeSortedCollections returns and the calls  *)
(* _finish makes, checked under SpecCollections                            *)

MaxOf(S) == CHOOSE x \in S : \A y \in S : y <= x

\* The round in which a saved chain leaves the pending set: 1 when none of
\* its children is a saved chain, else one more than the latest round of
\* such a child (k bounds the depth).
RECURSIVE ChainRound(_, _, _)
ChainRound(colls, n, k) ==
    IF k = 0 \/ ChainChildren(colls, n) = {} THEN 1
    ELSE 1 + MaxOf({ChainRound(colls, c, k - 1) : c \in ChainChildren(colls, n)})

\* 0 for a collection that is not CHAINED, else the chain's round.
RoundOf(colls, n) ==
    IF n \in SavedChains(colls) THEN ChainRound(colls, n, Cardinality(SavedChains(colls)))
    ELSE 0

\* `names` lists every saved name once, by round and, within a round, in
\* ascending order.
InRounds(colls, names) ==
    /\ Len(names) = Len(colls)
    /\ Range(names) = OKeySet(colls)
    /\ \A i, j \in 1..Len(names) :
          i < j =>
            \/ RoundOf(colls, names[i]) < RoundOf(colls, names[j])
            \/ /\ RoundOf(colls, names[i]) = RoundOf(colls, names[j])
               /\ StrRank(names[i]) < StrRank(names[j])

\* C28: the list _computeSortedCollections returns (on a direct call and on
\* the call _finish makes) holds every saved name exactly once: first the
\* collections that are not CHAINED, in ascending order, then the chains
\* round by round, a round being the pending chains none of whose children
\* is still pending, each round in ascending order.
C28_SortedInRounds ==
    /\ (sortOut.called /\ ~sortOut.result.raised) =>
            InRounds(sortOut.input, sortOut.result.names)
    /\ (finishOut.called /\ ~finishOut.raised) =>
            InRounds(finishOut.sortInput, finishOut.sorted.names)

\* A returned list of three chains, two of the first round and one of the
\* second whose name sorts before a first-round chain's.
C28_Witness ==
    /\ sortOut.called
    /\ ~sortOut.result.raised
    /\ Cardinality(SavedChains(sortOut.input)) = 3
    /\ \E a, b \in SavedChains(sortOut.input) :
          /\ RoundOf(sortOut.input, a) = 1
          /\ RoundOf(sortOut.input, b) = 2
          /\ StrRank(b) < StrRank(a)
          /\ Before(sortOut.result.names, a, b)

-----------------------------------------------------------------------------
(* Claims about the saveDatasets calls of _finish, checked under SpecResave *)

\* The saveDatasets calls among the calls of a _finish.
DatasetsCalls(calls) == {i \in 1..Len(calls) : calls[i].op = "saveDatasets"}

\* The datasets of the catalog whose id is in the exported-id set.
ExportedRefs(ids) == {r \in CatalogRefs : r.id \in ids}

\* The ids of the refs held by the FileDatasets of a call.
EmittedIds(call) == UNION {{r.id : r \in Range(fd.refs)} : fd \in Range(call.args[3])}

\* The (call, FileDataset) places in which the calls hold the dataset id.
PlacesOf(calls, id) ==
    UNION {{<<i, k>> : k \in {n \in 1..Len(calls[i].args[3]) :
                                \E r \in Range(calls[i].args[3][n].refs) : r.id = id}} :
            i \in DatasetsCalls(calls)}

\* One call per (dataset type, run) that has exported datasets, by type and
\* then by run, each with its FileDatasets in ascending order; every
\* exported id is held once, by the call of its type and run, and no other
\* id is held.
OneCallPerTypeAndRun(calls, ids) ==
    /\ \A r \in ExportedRefs(ids) :
          Cardinality({i \in DatasetsCalls(calls) :
                          calls[i].args[1] = r.datasetType /\ calls[i].args[2] = r.run}) = 1
    /\ \A i \in DatasetsCalls(calls) :
          /\ \E r \in ExportedRefs(ids) :
                calls[i].args[1] = r.datasetType /\ calls[i].args[2] = r.run
          /\ EmittedIds(calls[i]) \subseteq ids
          /\ \A a, b \in 1..Len(calls[i].args[3]) :
                a < b => FileDatasetKey(calls[i].args[3][a]) <= FileDatasetKey(calls[i].args[3][b])
          /\ \A j \in DatasetsCalls(calls) :
                i < j =>
                    \/ StrRank(calls[i].args[1]) < StrRank(calls[j].args[1])
                    \/ /\ calls[i].args[1] = calls[j].args[1]
                       /\ StrRank(calls[i].args[2]) < StrRank(calls[j].args[2])
    /\ \A r \in ExportedRefs(ids) :
          /\ Cardinality(PlacesOf(calls, r.id)) = 1
          /\ \A pl \in PlacesOf(calls, r.id) :
                /\ calls[pl[1]].args[1] = r.datasetType
                /\ calls[pl[1]].args[2] = r.run
    /\ Cardinality(ExportedRefs(ids)) = Cardinality(ids)

-----------------------------------------------------------------------------
(* Claims about the kinds of the emitted associations, checked under        *)
(* SpecExport                                                               *)

\* The chains among the names a session saved.
SavedChainNames(names) == {n \in names : CollectionType(n) = "CHAINED"}

\* C31: every saveDatasetAssociations call of a _finish is for a collection
\* of type TAGGED or CALIBRATION and passes that type; a call for a
\* CALIBRATION collection holds only associations of calibration dataset
\* types; and a saved chain brings in nothing of its children: no call is
\* made for the chain itself, and no association into a child that was not
\* itself saved is handed over.
C31_AssociationKinds ==
    finishOut.called =>
        /\ \A i \in 1..Len(AssociationCallsOf(finishOut.calls)) :
              LET call == AssociationCallsOf(finishOut.calls)[i] IN
              /\ call.args[2] \in {"TAGGED", "CALIBRATION"}
              /\ call.args[2] = CollectionType(call.args[1])
              /\ call.args[2] = "CALIBRATION" =>
                    \A a \in Range(call.args[3]) : IsCalibration(a.ref.datasetType)
        /\ \A n \in SavedChainNames(finishOut.asked.names) :
              /\ \A i \in 1..Len(AssociationCallsOf(finishOut.calls)) :
                    AssociationCallsOf(finishOut.calls)[i].args[1] # n
              /\ \A child \in Range(CatalogChildren(n)) \ finishOut.asked.names :
                    \A a \in EmittedAssociations(finishOut.calls) : a.collection # child

\* The chain c1 and the calibration collection k1 were saved, c1's child t1
\* was not; a raw dataset tagged in t1 and the bias dataset that is in both
\* t1 and k1 were exported, and the _finish handed over the k1 association.
C31_Witness ==
    /\ finishOut.called
    /\ {"c1", "k1"} \subseteq finishOut.asked.names
    /\ "t1" \notin finishOut.asked.names
    /\ "t1" \in Range(CatalogChildren("c1"))
    /\ {1, 3} \subseteq ctx.dataset_ids
    /\ \E a \in EmittedAssociations(finishOut.calls) : a.collection = "k1" /\ a.ref.id = 3

-----------------------------------------------------------------------------
(* Export sessions whose saveDatasets calls may fail part-way: a datastore  *)
(* that lost a file, a rewrite that raises, a ref without a run            *)

MaxDatastoreCalls == 3

\* The datastores of these sessions: the two above and one that lost the
\* file of a dataset.
SessionDatastores == Datastores \cup {"partial"}

RawRefs == {r \in CatalogRefs : r.datasetType = "raw"}

\* A ref that has an id and no run.
NullRunRef == DatasetRef(4, "raw", <<1, 1>>, NoRun)

\* The ref lists callers pass to saveDatasets: one ref, or two refs of one
\* dataset type of the catalog (twice the same one included).
DatastoreRefLists ==
    {<<r>> : r \in CatalogRefs \cup {NullRunRef}}
        \cup {<<r1, r2>> : r1 \in RawRefs, r2 \in RawRefs}

Rewrites == {"None", "move", "raise"}

DatastoreElements == {ElementsNone, ElementsOf({"visit"})}

NextDatastore ==
    \/ \E ds \in SessionDatastores : Open(ds)
    \/ \E refs \in DatastoreRefLists, e \in DatastoreElements, rewrite \in Rewrites :
            /\ nFinish = 0
            /\ Len(datastoreCalls) < MaxDatastoreCalls
            /\ SaveDatasetsRecorded(refs, e, rewrite)
    \/ (nFinish = 0 /\ Finish)

SpecDatastore == Init /\ [][NextDatastore]_vars

-----------------------------------------------------------------------------
(* Claims about the datastore calls of saveDatasets, checked under          *)
(* SpecDatastore                                                            *)

\* The places of the calls `op` for dataset `id` in a list of datastore calls.
CallsFor(calls, op, id) == {i \in 1..Len(calls) : calls[i] = DatastoreCall(op, id)}

SessionIds == {r.id : r \in CatalogRefs \cup {NullRunRef}}

\* The FileDatasets of a datasets map, each with the type and run it is filed under.
FiledDatasets(datasets) ==
    UNION {UNION {{<<datasets[i].key, datasets[i].value[j].key, fd>> :
                        fd \in Range(datasets[i].value[j].value)} :
                    j \in 1..Len(datasets[i].value)} :
            i \in 1..Len(datasets)}

\* C32 as stated: in every state of a session the datastore's export has
\* been invoked at most once for each dataset id.
C32_ExportOncePerId ==
    \A id \in SessionIds : Cardinality(CallsFor(datastoreCalls, "export", id)) <= 1

\* C32: a saveDatasets call makes no export call and no rewrite call for a
\* ref whose id is in the seen set when the call starts, and at most one of
\* each per id (a duplicate later in the same call is skipped); the
\* FileDatasets it files are of ids that were not seen, what was filed
\* before stays, and a call whose refs were all seen makes no call and
\* leaves the seen set and the datasets map as they were.
C32_SeenRefsSkipped ==
    datasetsOut.called =>
        /\ \A k \in 1..Len(datasetsOut.calls) :
              datasetsOut.calls[k].id \notin datasetsOut.before.dataset_ids
        /\ \A id \in SessionIds :
              /\ Cardinality(CallsFor(datasetsOut.calls, "export", id)) <= 1
              /\ Cardinality(CallsFor(datasetsOut.calls, "rewrite", id)) <= 1
        /\ FiledDatasets(datasetsOut.before.datasets) \subseteq
                FiledDatasets(datasetsOut.after.datasets)
        /\ \A f \in FiledDatasets(datasetsOut.after.datasets)
                        \ FiledDatasets(datasetsOut.before.datasets) :
              \A r \in Range(f[3].refs) : r.id \notin datasetsOut.before.dataset_ids
        /\ (\A r \in Range(datasetsOut.refs) : r.id \in datasetsOut.before.dataset_ids) =>
              /\ datasetsOut.calls = <<>>
              /\ datasetsOut.after.datasets = datasetsOut.before.datasets
              /\ datasetsOut.after.dataset_ids = datasetsOut.before.dataset_ids

\* A call with a rewrite was given a ref that was seen and then a new one,
\* and made one export and one rewrite call, both for the new one; and the
\* session has also had a call that was given the same ref twice.
C32_Witness ==
    /\ datasetsOut.called
    /\ datasetsOut.raised = ""
    /\ Len(datasetsOut.refs) = 2
    /\ datasetsOut.refs[1].id \in datasetsOut.before.dataset_ids
    /\ datasetsOut.refs[2].id \notin datasetsOut.before.dataset_ids
    /\ datasetsOut.calls = << DatastoreCall("export", datasetsOut.refs[2].id),
                              DatastoreCall("rewrite", datasetsOut.refs[2].id) >>
    /\ Len(datastoreCalls) > 2

\* The refs a saveDatasets call exported: those whose id was not seen before.
NewlyExported(out) == {r \in Range(out.refs) : r.id \notin out.before.dataset_ids}

\* The records of the table-backed non-view elements of a ref's expanded data ID.
RecordsOfRef(r) ==
    {rec \in Range(ExpandedRecords(r.dataId)) : ElementIsExported(rec.definition)}

\* The places among `calls` of the saveDatasets call that hands over dataset `id`.
DatasetCallOf(calls, id) ==
    {j \in 1..Len(calls) : calls[j].op = "saveDatasets" /\ id \in EmittedIds(calls[j])}

\* The places among `calls` of the saveDimensionData call of `element` that
\* hands over a record with data ID `dataId`.
RecordCallOf(calls, element, dataId) ==
    {i \in 1..Len(calls) :
        /\ calls[i].op = "saveDimensionData"
        /\ calls[i].args[1] = element
        /\ \E rec \in Range(calls[i].args[2]) : rec.dataId = dataId}

\* C33: when a saveDatasets call with elements omitted returns, the record
\* store holds, for every ref the call exported, a record of every
\* table-backed non-view element of the ref's expanded data ID; and the
\* _finish that follows hands over each of those records in a
\* saveDimensionData call that comes before the saveDatasets call holding
\* the dataset.
C33_RecordsOfExportedRefs ==
    (datasetsOut.called /\ datasetsOut.raised = "" /\ ~datasetsOut.elements.given) =>
        \A r \in NewlyExported(datasetsOut) :
            /\ \A rec \in RecordsOfRef(r) :
                  <<rec.definition, rec.dataId>> \in RecordKeys(datasetsOut.after.records)
            /\ finishOut.called =>
                  /\ DatasetCallOf(finishOut.calls, r.id) # {}
                  /\ \A j \in DatasetCallOf(finishOut.calls, r.id) :
                        \A rec \in RecordsOfRef(r) :
                            \E i \in RecordCallOf(finishOut.calls, rec.definition, rec.dataId) :
                                i < j

\* The session's last saveDatasets call had elements omitted and exported a
\* ref whose visit record was not in the store before, after an earlier
\* export had been made, and the session was finished.
C33_Witness ==
    /\ datasetsOut.called /\ datasetsOut.raised = "" /\ ~datasetsOut.elements.given
    /\ datasetsOut.before.dataset_ids # {}
    /\ \E r \in NewlyExported(datasetsOut) :
          /\ Len(r.dataId) = 2
          /\ <<"visit", r.dataId>> \notin RecordKeys(datasetsOut.before.records)
    /\ finishOut.called
    /\ \A r \in NewlyExported(datasetsOut) : DatasetCallOf(finishOut.calls, r.id) # {}

-----------------------------------------------------------------------------
(* Claims about the record store, checked under SpecRecords                 *)

\* Every record of a store is filed under its own definition and data ID.
FiledUnderOwnElement(records) ==
    \A i \in 1..Len(records) : \A j \in 1..Len(records[i].value) :
        /\ records[i].value[j].value.definition = records[i].key
        /\ records[i].value[j].value.dataId = records[i].value[j].key

\* The places in `records` of the DimensionRecords of another element.
Mismatched(element, records) ==
    {k \in 1..Len(records) : ~records[k].isDict /\ records[k].definition # element}

\* C34: in every state every stored record is filed under the element that
\* is its own definition; and a saveDimensionData(element, records) call
\* raises ValueError exactly when one of the records is a DimensionRecord
\* of another element, in which case it has stored only records given
\* before that one, all under `element`, and nothing of the mismatched one.
C34_MismatchRejected ==
    /\ FiledUnderOwnElement(ctx.records)
    /\ dimDataOut.called =>
          /\ dimDataOut.raised <=> Mismatched(dimDataOut.element, dimDataOut.records) # {}
          /\ FiledUnderOwnElement(dimDataOut.after)
          /\ \A key \in RecordKeys(dimDataOut.after) \ RecordKeys(dimDataOut.before) :
                /\ key[1] = dimDataOut.element
                /\ \E k \in 1..Len(dimDataOut.records) :
                      /\ dimDataOut.records[k].dataId = key[2]
                      /\ \A m \in Mismatched(dimDataOut.element, dimDataOut.records) : k < m

\* A call for visit was given a visit record and then an instrument record:
\* it raised after storing the first, and the store holds no record with
\* the instrument record's data ID under visit.
C34_Witness ==
    /\ dimDataOut.called
    /\ dimDataOut.raised
    /\ dimDataOut.element = "visit"
    /\ RecordKeys(dimDataOut.after) # RecordKeys(dimDataOut.before)
    /\ \E m \in Mismatched("visit", dimDataOut.records) :
          <<"visit", dimDataOut.records[m].dataId>> \notin RecordKeys(ctx.records)

-----------------------------------------------------------------------------
(* Claims about the seen ids and the datasets map, checked under            *)
(* SpecDatastore                                                            *)

\* Dataset `id` has a FileDataset in the datasets map, filed under the
\* dataset type and run of its ref.
Filed(datasets, id) ==
    \E f \in FiledDatasets(datasets) :
        \E r \in Range(f[3].refs) : r.id = id /\ r.datasetType = f[1] /\ r.run = f[2]

\* C38: in every state of a session, after saveDatasets calls that failed
\* part-way included, every dataset id of the seen set has a FileDataset
\* filed under its dataset type and run.
C38_SeenIdsAreFiled == \A id \in ctx.dataset_ids : Filed(ctx.datasets, id)

\* The same for the sessions that were given no ref without a run: a
\* datastore export or a rewrite that raises leaves no id unfiled.
C38_SeenIdsAreFiledWithRuns ==
    (NullRunRef \notin asked.refs) => \A id \in ctx.dataset_ids : Filed(ctx.datasets, id)

-----------------------------------------------------------------------------
(* Claims about racing registrations of conflicting definitions, checked   *)
(* under SpecMgr                                                            *)

\* Two register calls, one by each of two processes that had empty caches
\* (each process's first call, no refresh so far), for one name with two
\* definitions, have both ended.
ConflictingRace ==
    /\ ~refreshOut.called
    /\ AllIdle
    /\ Len(callLog) = 2
    /\ callLog[1].proc # callLog[2].proc
    /\ callLog[1].datasetType.name = callLog[2].datasetType.name
    /\ callLog[1].datasetType # callLog[2].datasetType

\* C35: of two such calls exactly one returned, with inserted=True, and the
\* other raised; the directory has one row with that name, holding the
\* winner's definition and the id the winner got, and the loser's caches
\* have no entry for the name or for that id.
C35_ConflictingRace ==
    ConflictingRace =>
        \E w, l \in Calls :
            /\ w # l
            /\ callLog[w].ok /\ callLog[w].inserted
            /\ ~callLog[l].ok
            /\ RowsNamed(directory, callLog[w].datasetType.name) =
                  {[id |-> callLog[w].id, name |-> callLog[w].datasetType.name,
                    dimensions_encoded |-> Encode(callLog[w].datasetType.dimensions),
                    storage_class |-> callLog[w].datasetType.storageClass]}
            /\ Find(callLog[w].proc, callLog[w].datasetType.name).datasetType
                  = callLog[w].datasetType
            /\ Find(callLog[l].proc, callLog[l].datasetType.name) = NoStorage
            /\ callLog[w].id \notin DOMAIN byId[callLog[l].proc]

\* The two calls overlapped: the loser's call ended first, while the
\* winner, whose row was already in the directory, had not returned yet.
C35_Witness ==
    /\ ConflictingRace
    /\ ~callLog[1].ok
    /\ callLog[2].ok /\ callLog[2].inserted
    /\ callLog[1].datasetType.dimensions # callLog[2].datasetType.dimensions

-----------------------------------------------------------------------------
(* _computeSortedCollections() run pass by pass over the collections a     *)
(* session saved                                                            *)

NextSortLoop ==
    \/ \E name \in CollectionNames \ OKeySet(ctx.collections) :
        \E children \in (IF CollectionType(name) = "CHAINED" THEN ChildLists ELSE {<<>>}) :
            /\ sortLoop.pc = "idle"
            /\ Len(ctx.collections) < MaxSaved
            /\ EdgeCount(ctx.collections) + Len(children) <= MaxEdges
            /\ SaveCollection(name, children)
    \/ BeginSort
    \/ SortPass

\* The call, once begun, goes on running: no pass waits for anything.
SpecSortLoop == Init /\ [][NextSortLoop]_vars /\ WF_vars(SortPass)

\* C36: a call of _computeSortedCollections that has begun its loop ends,
\* by returning or by raising the cycle error; every pass that does not
\* raise leaves fewer pending chains than it found; the passes made never
\* exceed the number of CHAINED collections the call began with; and the
\* call ends as the method's result says (the same list, or the error).
C36_SortTerminates ==
    /\ [](sortLoop.passes <= sortLoop.pending)
    /\ [][(sortLoop.pc = "loop" /\ sortLoop'.pc = "loop") =>
            Len(sortLoop'.chains) < Len(sortLoop.chains)]_vars
    /\ [](sortLoop.pc = "returned" =>
            /\ ~ComputeSortedCollections(ctx.collections).raised
            /\ sortLoop.result = ComputeSortedCollections(ctx.collections).names)
    /\ [](sortLoop.pc = "raised" => ComputeSortedCollections(ctx.collections).raised)
    /\ (sortLoop.pc = "loop") ~> (sortLoop.pc \in {"returned", "raised"})

\* A call over three chains, each the child of the next, returned after
\* three passes.
C36_Witness ==
    /\ sortLoop.pc = "returned"
    /\ sortLoop.pending = 3
    /\ sortLoop.passes = 3

-----------------------------------------------------------------------------
(* Claims about the two caches of a manager, checked under SpecRefs         *)

\* The name->storage and id->storage dicts hold the same storages, each
\* under its own dataset type name and its own surrogate id.
CachesAgree(bn, bi) ==
    /\ \A n \in DOMAIN bn :
          /\ bn[n].datasetType.name = n
          /\ bn[n].dataset_type_id \in DOMAIN bi
          /\ bi[bn[n].dataset_type_id] = bn[n]
    /\ \A i \in DOMAIN bi :
          /\ bi[i].dataset_type_id = i
          /\ bi[i].datasetType.name \in DOMAIN bn
          /\ bn[bi[i].datasetType.name] = bi[i]
    /\ \A n, m \in DOMAIN bn : bn[n].dataset_type_id = bn[m].dataset_type_id => n = m

-----------------------------------------------------------------------------
(* refresh() row by row, with queries that raise: SpecRefresh               *)

\* The dataset types the processes of this specification register: a
\* composite, whose registration leaves three rows, and one of its components.
RefreshInputs == {DatasetType("exp", D1, "Exposure"), DatasetType("exp.image", D1, "Image")}

RefreshNames == {"exp", "exp.image", "exp.wcs"}

\* The process whose refresh() calls run row by row; the other process
\* registers and removes dataset types meanwhile.
RefreshProcs == {"p1"}

NextRefresh ==
    \/ \E p \in Procs, dt \in RefreshInputs :
            (Len(callLog) + Cardinality({q \in Procs : pc[q] \in {"sync", "ensure"}})
                    < MaxRegistered
                /\ Register(p, dt))
    \/ \E p \in Procs : Sync(p)
    \/ \E p \in Procs : Ensure(p)
    \/ \E name \in RefreshNames : RemoveDatasetType(name)
    \/ \E p \in RefreshProcs, fails \in BOOLEAN : BeginRefresh(p, fails)
    \/ \E p \in RefreshProcs, fails \in BOOLEAN : ScanRow(p, fails)
    \/ \E p \in RefreshProcs : AssignByName(p)
    \/ \E p \in RefreshProcs : AssignById(p)

SpecRefresh == Init /\ [][NextRefresh]_vars

\* The refresh() call of the state is under way in its process.
InRefresh == refreshLoop.pc \in {"scan", "assign"}

\* C39: while refresh() scans, and when the query, a decode or the
\* reopening of a table raises, the two caches of the manager are the ones
\* it held when the call began; the caches change only once every row has
\* been visited, the call that returns leaves both caches equal to the two
\* dicts it built, and the one state between the two assignments is inside
\* the call, where no other call of the manager's process can run: whenever
\* a process is not inside refresh() its two caches hold the same storages.
C39_RefreshAllOrNothing ==
    /\ [](refreshLoop.pc = "scan"
            => /\ byName[refreshLoop.proc] = refreshLoop.beforeName
               /\ byId[refreshLoop.proc] = refreshLoop.beforeId)
    /\ [][refreshLoop'.pc = "raised" /\ (refreshLoop.pc = "scan" \/ refreshLoop' # refreshLoop)
            => /\ byName' = byName /\ byId' = byId
               /\ byName'[refreshLoop'.proc] = refreshLoop'.beforeName
               /\ byId'[refreshLoop'.proc] = refreshLoop'.beforeId
               /\ pc'[refreshLoop'.proc] = "idle"]_vars
    /\ [][InRefresh /\ (byName'[refreshLoop.proc] # byName[refreshLoop.proc]
                        \/ byId'[refreshLoop.proc] # byId[refreshLoop.proc])
            => refreshLoop.rows = {}]_vars
    /\ [][refreshLoop.pc = "assign" /\ refreshLoop'.pc = "returned"
            => /\ byName'[refreshLoop.proc] = refreshLoop.byName
               /\ byId'[refreshLoop.proc] = refreshLoop.byId
               /\ CachesAgree(byName'[refreshLoop.proc], byId'[refreshLoop.proc])]_vars
    /\ [](refreshLoop.pc = "assign" => pc[refreshLoop.proc] = "refresh")
    /\ [](\A p \in Procs : pc[p] # "refresh" => CachesAgree(byName[p], byId[p]))

\* A refresh() of a manager with a stale cache (a cached name is no longer
\* in the directory) raised after it had visited at least one row.
C39_Witness ==
    /\ refreshLoop.pc = "raised"
    /\ refreshLoop.scanned > 0
    /\ refreshLoop.beforeName # EmptyDict
    /\ \E n \in DOMAIN refreshLoop.beforeName : RowsNamed(directory, n) = {}
    /\ refreshLoop.byName # refreshLoop.beforeName

-----------------------------------------------------------------------------
(* register() of a composite whose cascade fails: SpecCascade               *)

\* The dataset types the processes of this specification register: a
\* composite, and a definition of each of its components that conflicts
\* with the one the cascade derives.
CascadeInputs ==
    { DatasetType("exp", D1, "Exposure"),
      DatasetType("exp.image", D2, "Image"),
      DatasetType("exp.wcs", D2, "Wcs") }

NextCascade ==
    \/ \E p \in Procs, dt \in CascadeInputs : Register(p, dt)
    \/ \E p \in Procs : Sync(p)
    \/ \E p \in Procs : Ensure(p)
    \/ \E p \in Procs : Refresh(p)

SpecCascade == Init /\ [][NextCascade]_vars

\* The directory holds a row with the definition dt.
Registered(dir, dt) ==
    \E row \in RowsNamed(dir, dt.name) :
        /\ row.dimensions_encoded = Encode(dt.dimensions)
        /\ row.storage_class = dt.storageClass

\* The manager's two caches hold a storage of dt, under its name and its id.
Cached(bn, bi, dt) ==
    /\ dt.name \in DOMAIN bn
    /\ bn[dt.name].datasetType = dt
    /\ bn[dt.name].dataset_type_id \in DOMAIN bi
    /\ bi[bn[dt.name].dataset_type_id] = bn[dt.name]

\* The step ends a register() call of p that has inserted its own type: it
\* ends in the registration of a component, or after the last of them.
CascadeEnds(p) ==
    /\ Len(callLog') = Len(callLog) + 1
    /\ callLog'[Len(callLog')].proc = p
    /\ \/ pc[p] = "sync" /\ ~cur[p].top /\ ret[p].ok /\ ret[p].inserted
       \/ pc[p] = "ensure" /\ cur[p].top /\ cur[p].inserted
       \/ pc[p] = "ensure" /\ ~cur[p].top /\ ret[p].ok /\ ret[p].inserted

\* The step ends such a call with an error.
CascadeFails(p) == CascadeEnds(p) /\ ~callLog'[Len(callLog')].ok

\* The log entries of register() calls of a composite that raised although
\* the directory holds the type as the call gave it: the calls that
\* inserted the type and failed in the cascade (rows are never changed, and
\* a call that finds its type's row as it gave it registers no component).
FailedCascades(log, dir) ==
    {i \in 1..Len(log) : ~log[i].ok /\ IsComposite(log[i].datasetType)
                           /\ Registered(dir, log[i].datasetType)}

\* C40: a register(T) that inserted T returns only when every component of
\* T is registered in its manager as T derives it, and raises otherwise;
\* when it raises, the directory keeps T's row and every other row, the manager's
\* caches keep T under its name and its id and every other storage they
\* held (the components registered before the failing one among them); and
\* every later register(T) of that manager returns inserted = False with
\* T's id at once, from the cache, without a db.sync call, a new row or a
\* new cache entry.
C40_FailedCascadeKeepsComposite ==
    /\ [][\A p \in Procs : CascadeEnds(p) /\ callLog'[Len(callLog')].ok =>
            LET T == callLog'[Len(callLog')].datasetType IN
            \A i \in 1..Len(StorageClassComponents(T.storageClass)) :
                Cached(byName'[p], byId'[p],
                       MakeComponentDatasetType(T, StorageClassComponents(T.storageClass)[i]))]_vars
    /\ [][\A p \in Procs : CascadeFails(p) =>
            LET T == callLog'[Len(callLog')].datasetType IN
            /\ IsComposite(T)
            /\ Registered(directory', T)
            /\ directory \subseteq directory'
            /\ Cached(byName'[p], byId'[p], T)
            /\ \A n \in DOMAIN byName[p] :
                  n \in DOMAIN byName'[p] /\ byName'[p][n] = byName[p][n]
            /\ \A i \in DOMAIN byId[p] :
                  i \in DOMAIN byId'[p] /\ byId'[p][i] = byId[p][i]
            /\ \A n \in cascaded : RowsNamed(directory', n) # {}
            /\ T \in {callLog'[i].datasetType : i \in FailedCascades(callLog', directory')}]_vars
    /\ [](\A i \in FailedCascades(callLog, directory) : \A j \in (i + 1)..Len(callLog) :
            callLog[j].proc = callLog[i].proc /\ callLog[j].datasetType = callLog[i].datasetType
            => /\ callLog[j].ok
               /\ ~callLog[j].inserted
               /\ \E row \in RowsNamed(directory, callLog[j].datasetType.name) :
                     row.id = callLog[j].id)
    /\ [][\A i \in FailedCascades(callLog, directory) :
            (/\ Len(callLog') = Len(callLog) + 1
             /\ callLog'[Len(callLog')].proc = callLog[i].proc
             /\ callLog'[Len(callLog')].datasetType = callLog[i].datasetType)
            => /\ pc[callLog[i].proc] = "idle"
               /\ directory' = directory
               /\ byName' = byName
               /\ byId' = byId]_vars

\* A register(T) of a composite failed at its first component after it had
\* inserted T, the same manager registered T again and was told
\* inserted = False, and the component after the failing one has no row.
C40_Witness ==
    \E i \in FailedCascades(callLog, directory) : \E j \in (i + 1)..Len(callLog) :
        /\ callLog[j].proc = callLog[i].proc
        /\ callLog[j].datasetType = callLog[i].datasetType
        /\ callLog[j].ok
        /\ ~callLog[j].inserted
        /\ RowsNamed(directory, "exp.image") # {}
        /\ RowsNamed(directory, "exp.wcs") = {}
        /\ Cached(byName[callLog[i].proc], byId[callLog[i].proc], callLog[i].datasetType)

====
